---- MODULE Spec2Model ----
(***************************************************************************)
(* Model of src/script.js: the z-score backtest engine (BacktestEngine),   *)
(* and the live monitor (checkTradingSignal, handleStartMonitor,           *)
(* handleStopMonitor) with its module-level state.                         *)
(*                                                                         *)
(* Numbers.  JavaScript numbers are IEEE doubles.  The returns of the      *)
(* backtest (priceChange, pnl, cumulativePnl, drawdown), the metrics and   *)
(* the evaluation are computed in them: a number is a record of sign,      *)
(* significand and exponent, every operation rounds as the code's does,    *)
(* NaN and the infinities included, and toFixed gives a text that Number() *)
(* reads back.  Thresholds and the closes of the batch engine are whole    *)
(* numbers or ratios, a ratio being a normalised pair <<n, d>> with d > 0. *)
(* A z-score (close - mean) / std of whole closes is kept as               *)
(* num / sqrt(rad), which is what the code's formula equals,               *)
(*     mean = S/w,  std = sqrt(w*SS - S*S)/w,  z = (w*c - S)/sqrt(w*SS-S*S)*)
(* (S the sum and SS the sum of squares of the window's closes), together  *)
(* with the side on which the code's double lies when a number equals it,  *)
(* so every comparison of a z-score with a threshold is decided as the     *)
(* code decides it.  calculateZScore is also given in doubles throughout,  *)
(* for closes that are decimal texts.                                      *)
(***************************************************************************)
EXTENDS Integers, Sequences, FiniteSets, Bags, TLC

VARIABLES
    isMonitoring,          \* script.js:29
    lastHourlyTimestamp,   \* script.js:30   None or Some(hour)
    currentPosition,       \* script.js:31   "none" | "long" | "short"
    monitorInterval,       \* script.js:28   None or Some(timer id)
    timers,                \* live setInterval timers: id -> closure variable lastHour
    ticks,                 \* bag of checkTradingSignal calls suspended at an await
    clock,                 \* wall clock: [hour, atStart]
    sent,                  \* history: the bar of the latest sendHourlyUpdate call and the
                           \*   number of calls made for that bar since the last start
    lastOp,                \* history: the last handler step that had an effect
    submits,               \* bag of handleBacktestSubmit calls suspended at their
                           \*   await, each the form data it has read
    input,                 \* arguments of the engine call under study
    df,                    \* result of BacktestEngine.backtest
    k                      \* number of z-scores fed so far to the live rule

vars == <<isMonitoring, lastHourlyTimestamp, currentPosition, monitorInterval,
          timers, ticks, clock, sent, lastOp, submits, input, df, k>>

monitorVars == <<isMonitoring, lastHourlyTimestamp, currentPosition,
                 monitorInterval, timers, ticks, clock, sent, lastOp, submits>>

-----------------------------------------------------------------------------
(* Bounds *)

MaxLen == 4        \* longest price series given to backtest
MaxPrice == 3      \* closes are 1..MaxPrice
MaxWindow == 3     \* windows are 1..MaxWindow
MaxPages == 2      \* responses of the API given to fetchHistoricalData
MaxZLen == 3       \* longest z-score sequence fed to the live rule
MaxHour == 2       \* the wall clock runs over hours 1..MaxHour
MaxSessionHour == 3  \* one uninterrupted session runs over hours 1..MaxSessionHour
MaxTicks == 2      \* checkTradingSignal calls in flight at once
MaxSubmits == 2    \* handleBacktestSubmit calls in flight at once
MaxTimers == 2     \* setInterval timers alive at once

-----------------------------------------------------------------------------
(* Optional values (null / a value) *)

None == <<>>
Some(x) == <<x>>

-----------------------------------------------------------------------------
(* Exact arithmetic *)

Abs(a) == IF a < 0 THEN -a ELSE a

Sign(a) == IF a < 0 THEN -1 ELSE IF a > 0 THEN 1 ELSE 0

RECURSIVE GCD(_, _)
GCD(a, b) == IF b = 0 THEN a ELSE GCD(b, a % b)

\* the ratio n/d (d # 0) in lowest terms with a positive denominator
Rat(n, d) ==
    LET g == GCD(Abs(n), Abs(d))
        s == IF d < 0 THEN -1 ELSE 1
    IN  <<(s * n) \div g, (s * d) \div g>>

RatZero == <<0, 1>>

RatAdd(p, q) == Rat(p[1] * q[2] + q[1] * p[2], p[2] * q[2])

RatSub(p, q) == Rat(p[1] * q[2] - q[1] * p[2], p[2] * q[2])

RatMulInt(n, p) == Rat(n * p[1], p[2])

RatMul(p, q) == Rat(p[1] * q[1], p[2] * q[2])

\* p / q for q # 0
RatDiv(p, q) == Rat(p[1] * q[2], p[2] * q[1])

\* sign of p - q
RatCmp(p, q) == Sign(p[1] * q[2] - q[1] * p[2])

RECURSIVE SumSeq(_)
SumSeq(s) == IF s = <<>> THEN 0 ELSE Head(s) + SumSeq(Tail(s))

-----------------------------------------------------------------------------
(* JavaScript numbers as they are: IEEE 754 binary64, round to nearest,     *)
(* ties to even.  A number is [s, m, e]: sign s, significand m (a natural   *)
(* number of Precision bits, little-endian digits in base 2^15) and         *)
(* exponent e, standing for s * m * 2^e; zero has no digits.  The exponent  *)
(* range (overflow, subnormals) is left out: the prices and statistics here *)
(* stay far inside it.                                                      *)

Precision == 53

Base == 2^15

RECURSIVE Trim(_)
Trim(a) == IF a # <<>> /\ a[Len(a)] = 0 THEN Trim(SubSeq(a, 1, Len(a) - 1)) ELSE a

RECURSIVE BigFromInt(_)
BigFromInt(n) == IF n = 0 THEN <<>> ELSE <<n % Base>> \o BigFromInt(n \div Base)

RECURSIVE BigToInt(_)
BigToInt(a) == IF a = <<>> THEN 0 ELSE Head(a) + Base * BigToInt(Tail(a))

RECURSIVE BigAddCarry(_, _, _)
BigAddCarry(a, b, c) ==
    IF a = <<>> /\ b = <<>> THEN (IF c = 0 THEN <<>> ELSE <<c>>)
    ELSE LET x == (IF a = <<>> THEN 0 ELSE Head(a))
                    + (IF b = <<>> THEN 0 ELSE Head(b)) + c
         IN  <<x % Base>> \o BigAddCarry(IF a = <<>> THEN <<>> ELSE Tail(a),
                                         IF b = <<>> THEN <<>> ELSE Tail(b),
                                         x \div Base)

BigAdd(a, b) == BigAddCarry(a, b, 0)

RECURSIVE BigSubBorrow(_, _, _)
BigSubBorrow(a, b, c) ==
    IF a = <<>> THEN <<>>
    ELSE LET x == Head(a) - (IF b = <<>> THEN 0 ELSE Head(b)) - c
         IN  <<IF x < 0 THEN x + Base ELSE x>>
                 \o BigSubBorrow(Tail(a), IF b = <<>> THEN <<>> ELSE Tail(b),
                                 IF x < 0 THEN 1 ELSE 0)

\* a - b for a >= b
BigSub(a, b) == Trim(BigSubBorrow(a, b, 0))

RECURSIVE BigCmp(_, _)
BigCmp(a, b) ==
    IF Len(a) # Len(b) THEN Sign(Len(a) - Len(b))
    ELSE IF a = <<>> THEN 0
    ELSE IF a[Len(a)] # b[Len(b)] THEN Sign(a[Len(a)] - b[Len(b)])
    ELSE BigCmp(Trim(SubSeq(a, 1, Len(a) - 1)), Trim(SubSeq(b, 1, Len(b) - 1)))

\* a * n + c for n, c < Base
RECURSIVE BigMulSmall(_, _, _)
BigMulSmall(a, n, c) ==
    IF a = <<>> THEN (IF c = 0 THEN <<>> ELSE <<c>>)
    ELSE LET x == Head(a) * n + c
         IN  <<x % Base>> \o BigMulSmall(Tail(a), n, x \div Base)

RECURSIVE BigMulDigits(_, _)
BigMulDigits(a, b) ==
    IF b = <<>> THEN <<>>
    ELSE BigAdd(BigMulSmall(a, Head(b), 0), <<0>> \o BigMulDigits(a, Tail(b)))

BigMul(a, b) == Trim(BigMulDigits(a, b))

\* a * 2^n
BigShl(a, n) ==
    IF a = <<>> THEN <<>>
    ELSE [i \in 1..(n \div 15) |-> 0] \o Trim(BigMulSmall(a, 2^(n % 15), 0))

\* long division by one digit d of the digits i..Len(a) of a: quotient
\* digits q and remainder r
RECURSIVE BigDivSmallFrom(_, _, _)
BigDivSmallFrom(a, d, i) ==
    IF i > Len(a) THEN [q |-> <<>>, r |-> 0]
    ELSE LET up == BigDivSmallFrom(a, d, i + 1)
             cur == up.r * Base + a[i]
         IN  [q |-> <<cur \div d>> \o up.q, r |-> cur % d]

\* a \div 2^n
BigShr(a, n) ==
    IF n \div 15 >= Len(a) THEN <<>>
    ELSE Trim(BigDivSmallFrom(SubSeq(a, n \div 15 + 1, Len(a)), 2^(n % 15), 1).q)

RECURSIVE BitLenSmall(_)
BitLenSmall(x) == IF x = 0 THEN 0 ELSE 1 + BitLenSmall(x \div 2)

BitLen(a) == IF a = <<>> THEN 0 ELSE 15 * (Len(a) - 1) + BitLenSmall(a[Len(a)])

\* the digit d with d * b <= cur < (d + 1) * b, for cur < b * Base and b
\* with its top digit at least Base / 2: the estimate from the top digits
\* is at most 2 too large
QuotientDigit(cur, b) ==
    LET n == Len(b)
        top == (IF Len(cur) > n THEN cur[n + 1] ELSE 0) * Base
                   + (IF Len(cur) >= n THEN cur[n] ELSE 0)
        est == IF top \div b[n] > Base - 1 THEN Base - 1 ELSE top \div b[n]
    IN  CHOOSE d \in {c \in (est - 2)..est : c >= 0} :
            /\ BigCmp(Trim(BigMulSmall(b, d, 0)), cur) <= 0
            /\ BigCmp(Trim(BigMulSmall(b, d + 1, 0)), cur) > 0

\* long division of the digits i..Len(a) of a by b: quotient digits q and
\* remainder r.  up is the result for the digits above i, cur the remainder
\* with the digit i brought down, d the quotient digit
BigDivDigit(b, up, cur, d) ==
    [q |-> <<d>> \o up.q, r |-> BigSub(cur, Trim(BigMulSmall(b, d, 0)))]

BigDivStep(b, up, cur) ==
    IF BigCmp(cur, b) < 0
    THEN [q |-> <<0>> \o up.q, r |-> cur]
    ELSE BigDivDigit(b, up, cur, QuotientDigit(cur, b))

RECURSIVE BigDivFrom(_, _, _)
BigDivBelow(a, b, i, up) == BigDivStep(b, up, Trim(<<a[i]>> \o up.r))

BigDivFrom(a, b, i) ==
    IF i > Len(a) THEN [q |-> <<>>, r |-> <<>>]
    ELSE BigDivBelow(a, b, i, BigDivFrom(a, b, i + 1))

BigDivResult(sh, qr) == [q |-> Trim(qr.q), r |-> BigShr(qr.r, sh)]

BigDivShifted(a, b, sh) ==
    BigDivResult(sh, BigDivFrom(BigShl(a, sh), BigShl(b, sh), 1))

\* [q, r] with a = q * b + r and r < b, for b # 0
BigDivMod(a, b) == BigDivShifted(a, b, 15 - BitLenSmall(b[Len(b)]))

\* Newton's iteration downwards from x >= sqrt(a)
RECURSIVE BigSqrtStep(_, _)
BigSqrtBetter(a, x, y) == IF BigCmp(y, x) >= 0 THEN x ELSE BigSqrtStep(a, y)

BigSqrtStep(a, x) == BigSqrtBetter(a, x, BigShr(BigAdd(x, BigDivMod(a, x).q), 1))

\* the largest r with r * r <= a
BigSqrt(a) ==
    IF a = <<>> THEN <<>> ELSE BigSqrtStep(a, BigShl(<<1>>, (BitLen(a) + 1) \div 2))

FlZero == [s |-> 0, m |-> <<>>, e |-> 0]

\* NaN and the infinity of sign s: numbers without digits, told from zero
\* by their e
FlNaN == [s |-> 0, m |-> <<>>, e |-> 1]

FlInfinity(s) == [s |-> s, m |-> <<>>, e |-> 1]

\* isNaN(x)
FlIsNaN(x) == x = FlNaN

FlIsInfinite(x) == x.m = <<>> /\ x.s # 0

\* s * q * 2^e, with the significand q brought back to Precision bits when
\* rounding up carried into one more
FlCarried(s, q, e, len) ==
    IF len > Precision
    THEN [s |-> s, m |-> BigShr(q, 1), e |-> e + 1]
    ELSE [s |-> s, m |-> q, e |-> e]

FlGrown(s, q, e) == FlCarried(s, q, e, BitLen(q))

\* q: the upper Precision bits of n; c: the rest against one half
FlDecided(s, e, sticky, q, c) ==
    FlGrown(s, IF c > 0 \/ (c = 0 /\ (sticky \/ q[1] % 2 = 1))
               THEN BigAdd(q, <<1>>) ELSE q, e)

FlSplit(s, n, e, sticky, sh, q) ==
    FlDecided(s, e + sh, sticky, q,
              BigCmp(BigSub(n, BigShl(q, sh)), BigShl(<<1>>, sh - 1)))

FlRoundBits(s, n, e, sticky, len) ==
    IF len <= Precision
    THEN [s |-> s, m |-> BigShl(n, Precision - len), e |-> e - (Precision - len)]
    ELSE FlSplit(s, n, e, sticky, len - Precision, BigShr(n, len - Precision))

\* the number nearest to s * (n + f) * 2^e, where 0 <= f < 1 and sticky
\* says f > 0 (then n has more than Precision + 1 bits); ties go to the even
\* significand
FlRound(s, n, e, sticky) ==
    IF n = <<>> THEN FlZero ELSE FlRoundBits(s, n, e, sticky, BitLen(n))

FlQuotient(s, qr, e) == FlRound(s, qr.q, e, qr.r # <<>>)

FlRatioScaled(s, a, b, t) == FlQuotient(s, BigDivMod(BigShl(a, t), b), -t)

\* the number nearest to s * a / b, for big a and b with b # 0
FlFromBigRatio(s, a, b) ==
    IF a = <<>> THEN FlZero ELSE FlRatioScaled(s, a, b, Precision + 3 + BitLen(b))

\* parseFloat of the decimal text that reads n / d  (d > 0)
FlFromRatio(n, d) == FlFromBigRatio(Sign(n), BigFromInt(Abs(n)), BigFromInt(d))

\* -x
FlNeg(x) == [x EXCEPT !.s = -x.s]

\* Math.abs(x)
FlAbs(x) == [x EXCEPT !.s = Abs(x.s)]

\* a, b: the significands of x and y at the common exponent e; c compares them
FlAddAligned(x, y, e, a, b, c) ==
    IF x.s # y.s /\ c = 0 THEN FlZero
    ELSE FlRound(IF x.s = y.s \/ c > 0 THEN x.s ELSE y.s,
                 IF x.s = y.s THEN BigAdd(a, b)
                 ELSE IF c > 0 THEN BigSub(a, b) ELSE BigSub(b, a),
                 e, FALSE)

FlAddCompared(x, y, e, a, b) == FlAddAligned(x, y, e, a, b, BigCmp(a, b))

FlAddAt(x, y, e) == FlAddCompared(x, y, e, BigShl(x.m, x.e - e), BigShl(y.m, y.e - e))

\* x + y
FlAdd(x, y) ==
    IF FlIsNaN(x) \/ FlIsNaN(y) THEN FlNaN
    ELSE IF FlIsInfinite(x)
    THEN (IF FlIsInfinite(y) /\ y.s # x.s THEN FlNaN ELSE x)
    ELSE IF FlIsInfinite(y) THEN y
    ELSE IF x.s = 0 THEN y
    ELSE IF y.s = 0 THEN x
    ELSE FlAddAt(x, y, IF x.e < y.e THEN x.e ELSE y.e)

\* x - y
FlSub(x, y) == FlAdd(x, FlNeg(y))

\* x * y
FlMul(x, y) ==
    IF FlIsNaN(x) \/ FlIsNaN(y) THEN FlNaN
    ELSE IF FlIsInfinite(x) \/ FlIsInfinite(y)
    THEN (IF x.s = 0 \/ y.s = 0 THEN FlNaN ELSE FlInfinity(x.s * y.s))
    ELSE IF x.s = 0 \/ y.s = 0 THEN FlZero
    ELSE FlRound(x.s * y.s, BigMul(x.m, y.m), x.e + y.e, FALSE)

\* x / y; a zero divisor is the positive zero
FlDiv(x, y) ==
    IF FlIsNaN(x) \/ FlIsNaN(y) THEN FlNaN
    ELSE IF FlIsInfinite(x)
    THEN (IF FlIsInfinite(y) THEN FlNaN
          ELSE FlInfinity(IF y.s < 0 THEN -x.s ELSE x.s))
    ELSE IF FlIsInfinite(y) THEN FlZero
    ELSE IF y.s = 0 THEN (IF x.s = 0 THEN FlNaN ELSE FlInfinity(x.s))
    ELSE IF x.s = 0 THEN FlZero
    ELSE FlQuotient(x.s * y.s, BigDivMod(BigShl(x.m, Precision + 3), y.m),
                    x.e - y.e - (Precision + 3))

FlSqrtRoot(a, r, e) == FlRound(1, r, e, BigMul(r, r) # a)

FlSqrtOf(a, e) == FlSqrtRoot(a, BigSqrt(a), e)

FlSqrtScaled(x, t) == FlSqrtOf(BigShl(x.m, t), (x.e - t) \div 2)

\* Math.sqrt(x)
FlSqrt(x) ==
    IF FlIsNaN(x) \/ x.s < 0 THEN FlNaN
    ELSE IF FlIsInfinite(x) \/ x.s = 0 THEN x
    ELSE FlSqrtScaled(x, Precision + 5 + ((x.e + Precision + 5) % 2))

\* the sign of x - y for numbers x and y, neither NaN
FlCmp(x, y) == FlSub(x, y).s

\* x > y; a comparison with NaN is false
FlGreater(x, y) == ~FlIsNaN(x) /\ ~FlIsNaN(y) /\ FlCmp(x, y) > 0

\* x >= y
FlAtLeast(x, y) == ~FlIsNaN(x) /\ ~FlIsNaN(y) /\ FlCmp(x, y) >= 0

\* Math.max(x, y)
FlMax(x, y) ==
    IF FlIsNaN(x) \/ FlIsNaN(y) THEN FlNaN
    ELSE IF FlCmp(y, x) > 0 THEN y ELSE x

\* Math.min(x, y)
FlMin(x, y) ==
    IF FlIsNaN(x) \/ FlIsNaN(y) THEN FlNaN
    ELSE IF FlCmp(y, x) < 0 THEN y ELSE x

\* Math.min(...s)
RECURSIVE FlMinOf(_)
FlMinOf(s) == IF s = <<>> THEN FlInfinity(1) ELSE FlMin(Head(s), FlMinOf(Tail(s)))

-----------------------------------------------------------------------------
(* Numbers as texts: Number.prototype.toFixed, and Number() reading the    *)
(* text back.  A text is [kind, neg, n, scale]: of kind "fixed" it is the   *)
(* digits of the natural number n with a point before the last scale ones, *)
(* after a minus sign when neg; of kind "exponent" it is the shortest text  *)
(* in exponent notation that reads the double n * 2^scale; the other kinds  *)
(* are the texts "NaN", "Infinity" and "N/A".                               *)

FixedText(neg, n, scale) == [kind |-> "fixed", neg |-> neg, n |-> n, scale |-> scale]

WordText(kind, neg) == [kind |-> kind, neg |-> neg, n |-> <<>>, scale |-> 0]

RECURSIVE BigPow10(_)
BigPow10(n) == IF n = 0 THEN <<1>> ELSE Trim(BigMulSmall(BigPow10(n - 1), 10, 0))

\* the whole part of m * 2^e, for e < 0 rounded to the nearest whole number
\* and upwards from a half
BigScaledHalfUp(m, e) ==
    IF e >= 0 THEN BigShl(m, e)
    ELSE BigShr(BigAdd(m, BigShl(<<1>>, -e - 1)), -e)

\* x.toFixed(digits) for 0 <= digits <= 4: the n for which n / 10^digits is
\* nearest to |x|, the larger one when two are equally near; numbers from
\* 10^21 on are written in exponent notation
FlToFixed(x, digits) ==
    IF FlIsNaN(x) THEN WordText("NaN", FALSE)
    ELSE IF FlIsInfinite(x) THEN WordText("Infinity", x.s < 0)
    ELSE IF BigCmp(BigScaledHalfUp(x.m, x.e), BigPow10(21)) >= 0
    THEN [kind |-> "exponent", neg |-> x.s < 0, n |-> x.m, scale |-> x.e]
    ELSE FixedText(x.s < 0,
                   BigScaledHalfUp(Trim(BigMulSmall(x.m, 10^digits, 0)), x.e),
                   digits)

\* Number(text)
FlFromText(text) ==
    CASE text.kind = "fixed" ->
             FlFromBigRatio(IF text.neg THEN -1 ELSE 1, text.n, BigPow10(text.scale))
      [] text.kind = "exponent" ->
             [s |-> IF text.neg THEN -1 ELSE 1, m |-> text.n, e |-> text.scale]
      [] text.kind = "Infinity" -> FlInfinity(IF text.neg THEN -1 ELSE 1)
      [] OTHER -> FlNaN

\* Number(x.toFixed(digits))
FlFixed(x, digits) == FlFromText(FlToFixed(x, digits))

-----------------------------------------------------------------------------
(* Windows of closes *)

Closes(data, from, to) == [j \in 1..(to - from + 1) |-> data[from + j - 1].close]

Squares(s) == [j \in 1..Len(s) |-> s[j] * s[j]]

-----------------------------------------------------------------------------
(* BacktestEngine.calculateZScore, script.js:193-213, in the numbers the    *)
(* code computes with: the closes are what parseFloat gives (script.js:91)  *)
(* and every operation rounds.                                              *)

\* data.reduce((a, b) => a + b, acc), script.js:202
RECURSIVE FlSum(_, _)
FlSum(s, acc) == IF s = <<>> THEN acc ELSE FlSum(Tail(s), FlAdd(acc, Head(s)))

\* Math.pow(x, 2)
FlSquare(x) == FlMul(x, x)

\* reduce((sum, val) => sum + Math.pow(val - mean, 2), acc), script.js:204
RECURSIVE FlSumSquaredDev(_, _, _)
FlSumSquaredDev(s, mean, acc) ==
    IF s = <<>> THEN acc
    ELSE FlSumSquaredDev(Tail(s), mean, FlAdd(acc, FlSquare(FlSub(Head(s), mean))))

\* script.js:208-210
FlStatsRow(item, mean, std) ==
    [time |-> item.time, close |-> item.close,
     mean |-> Some(mean), std |-> Some(std),
     zscore |-> Some(IF std # FlZero THEN FlDiv(FlSub(item.close, mean), std)
                     ELSE FlZero)]

\* script.js:203-205
FlStatsAround(item, windowData, n, mean) ==
    FlStatsRow(item, mean, FlSqrt(FlDiv(FlSumSquaredDev(windowData, mean, FlZero), n)))

\* script.js:202; n is windowData.length
FlWindowStats(item, windowData, n) ==
    FlStatsAround(item, windowData, n, FlDiv(FlSum(windowData, FlZero), n))

\* one bar of calculateZScore's map callback
ZScoreBarFl(data, window, i) ==
    IF i - 1 < window - 1
    THEN [time |-> data[i].time, close |-> data[i].close,
          mean |-> None, std |-> None, zscore |-> None]
    ELSE FlWindowStats(data[i], Closes(data, i - window + 1, i),
                       FlFromRatio(window, 1))

calculateZScoreFl(data, window) ==
    [i \in 1..Len(data) |-> ZScoreBarFl(data, window, i)]

\* the bars with closes parsed from the decimal texts that read n / d
FlBars(closes) ==
    [j \in 1..Len(closes) |->
        [time |-> j, close |-> FlFromRatio(closes[j][1], closes[j][2])]]

-----------------------------------------------------------------------------
(* BacktestEngine.calculateZScore, script.js:193-213.  Bars are 1-based     *)
(* here, so the code's index is i - 1.                                      *)

RECURSIVE ISqrtFrom(_, _)
ISqrtFrom(n, r) == IF r <= n \div r THEN r ELSE ISqrtFrom(n, (r + n \div r) \div 2)

\* the largest r with r * r <= n
ISqrt(n) == IF n = 0 THEN 0 ELSE ISqrtFrom(n, n)

\* How the z-score the code computes, a double, compares with a number equal
\* to the exact z-score num / sqrt(D) of the last of the n closes windowData:
\* 0 when the double is the one nearest to it, else the sign of the
\* difference.  Only a rational z-score (D a square) has a number equal to
\* it; and when n is a power of two the code's steps are all exact (the
\* closes are whole numbers), up to the last division, which rounds to
\* nearest.
ZScoreOff(windowData, n, num, D) ==
    IF ISqrt(D) * ISqrt(D) # D \/ (\E j \in 0..30 : n = 2^j)
    THEN 0
    ELSE FlSub(ZScoreBarFl(FlBars([j \in 1..n |-> <<windowData[j], 1>>]), n, n).zscore[1],
               FlFromRatio(num, ISqrt(D))).s

\* the statistics of the closes windowData for the bar item
WindowStats(item, windowData, n) ==
    LET S == SumSeq(windowData)
        D == n * SumSeq(Squares(windowData)) - S * S
    IN  [time |-> item.time, close |-> item.close,
         mean |-> Some(Rat(S, n)),
         std |-> Some([rad |-> D, den |-> n]),
         zscore |-> Some(IF D # 0
                         THEN [num |-> n * item.close - S, rad |-> D,
                               off |-> ZScoreOff(windowData, n, n * item.close - S, D)]
                         ELSE [num |-> 0, rad |-> 1, off |-> 0])]

Undefined(item) ==
    [time |-> item.time, close |-> item.close,
     mean |-> None, std |-> None, zscore |-> None]

\* script.js:202-207 for window 0: the slice is empty, the mean is 0 / 0 and
\* with it the std and the z-score are NaN, kept as the ratio 0 / 0, the
\* root sqrt(0) / 0 and the z-score 0 / sqrt(0)
NaNStats(item) ==
    [time |-> item.time, close |-> item.close,
     mean |-> Some(<<0, 0>>), std |-> Some([rad |-> 0, den |-> 0]),
     zscore |-> Some([num |-> 0, rad |-> 0, off |-> 0])]

\* isNaN(z) for a z-score z
ZIsNaN(z) == z.rad = 0

\* mutant: the statistics start one bar late (index < window)
ZScoreBar_Late(data, window, i) ==
    IF i - 1 < window
    THEN Undefined(data[i])
    ELSE WindowStats(data[i], Closes(data, i - window + 1, i), window)

\* mutant: the window grows from the first bar (slice(0, index + 1))
ZScoreBar_Expanding(data, window, i) ==
    IF i - 1 < window - 1
    THEN Undefined(data[i])
    ELSE WindowStats(data[i], Closes(data, 1, i), i)

\* one bar of calculateZScore's map callback
ZScoreBar(data, window, i) ==
    IF i - 1 < window - 1
    THEN [time |-> data[i].time, close |-> data[i].close,
          mean |-> None, std |-> None, zscore |-> None]
    ELSE IF window = 0
    THEN NaNStats(data[i])
    ELSE LET windowData == Closes(data, i - window + 1, i)
             S == SumSeq(windowData)
             D == window * SumSeq(Squares(windowData)) - S * S
         IN  [time |-> data[i].time, close |-> data[i].close,
              mean |-> Some(Rat(S, window)),
              std |-> Some([rad |-> D, den |-> window]),
              zscore |-> Some(IF D # 0
                              THEN [num |-> window * data[i].close - S, rad |-> D,
                                    off |-> ZScoreOff(windowData, window,
                                                      window * data[i].close - S, D)]
                              ELSE [num |-> 0, rad |-> 1, off |-> 0])]

calculateZScore(data, window) ==
    [i \in 1..Len(data) |-> ZScoreBar(data, window, i)]

-----------------------------------------------------------------------------
(* BacktestEngine.generateSignals, script.js:215-266 *)

\* sign of z - t as the code's >= and <= see it, for a z-score
\* z = [num, rad, off] (the number num / sqrt(rad), and how the double the
\* code holds for it compares with an equal number) and a threshold
\* t = <<n, d>>.  num/sqrt(rad) - n/d has the sign of num*d - n*sqrt(rad),
\* and x |-> x*|x| is increasing.  The code compares the doubles; they are
\* ordered as the exact numbers are unless these are equal.
ZCmp(z, t) ==
    LET a == z.num * t[2]
        b == t[1]
        exact == Sign(a * Abs(a) - b * Abs(b) * z.rad)
    IN  IF exact # 0 THEN exact ELSE z.off

\* variants of the first pass, for the mutants below: strict compares with
\* > and <; fastHolds leaves a single-sided fast bar undecided where it
\* should write 0; fastBothFlat writes 0 on an untriggered fast/both bar
RawPositionVariant(signal, entryThreshold, exitThreshold, logicType, side,
                   strict, fastHolds, fastBothFlat) ==
    IF signal = None \/ ZIsNaN(signal[1]) THEN None
    ELSE LET ce == ZCmp(signal[1], entryThreshold)
             cx == ZCmp(signal[1], exitThreshold)
             ge == IF strict THEN ce > 0 ELSE ce >= 0
             le == IF strict THEN cx < 0 ELSE cx <= 0
             flat == IF fastHolds THEN None ELSE Some(0)
         IN  IF logicType = "trend" /\ side = "long"
             THEN (IF le THEN Some(0) ELSE IF ge THEN Some(1) ELSE None)
             ELSE IF logicType = "trend" /\ side = "short"
             THEN (IF le THEN Some(-1) ELSE IF ge THEN Some(0) ELSE None)
             ELSE IF logicType = "trend" /\ side = "both"
             THEN (IF le THEN Some(-1) ELSE IF ge THEN Some(1) ELSE None)
             ELSE IF logicType = "fast" /\ side = "long"
             THEN (IF ge THEN Some(1) ELSE flat)
             ELSE IF logicType = "fast" /\ side = "short"
             THEN (IF le THEN Some(-1) ELSE flat)
             ELSE IF logicType = "fast" /\ side = "both"
             THEN (IF le THEN Some(-1) ELSE IF ge THEN Some(1)
                   ELSE IF fastBothFlat THEN Some(0) ELSE None)
             ELSE None

\* mutant: the thresholds are compared with > and <
RawPosition_Strict(signal, entryThreshold, exitThreshold, logicType, side) ==
    RawPositionVariant(signal, entryThreshold, exitThreshold, logicType, side,
                       TRUE, FALSE, FALSE)

\* mutant: single-sided fast logic holds between the thresholds, as trend does
RawPosition_FastHolds(signal, entryThreshold, exitThreshold, logicType, side) ==
    RawPositionVariant(signal, entryThreshold, exitThreshold, logicType, side,
                       FALSE, TRUE, FALSE)

\* mutant: fast/both goes flat on an untriggered bar, as the other fast sides do
RawPosition_FastBothFlat(signal, entryThreshold, exitThreshold, logicType, side) ==
    RawPositionVariant(signal, entryThreshold, exitThreshold, logicType, side,
                       FALSE, FALSE, TRUE)

\* mutant: side both leaves a position the way side long does
RawPosition_BothGoesFlat(signal, entryThreshold, exitThreshold, logicType, side) ==
    RawPositionVariant(signal, entryThreshold, exitThreshold, logicType,
                       IF side = "both" THEN "long" ELSE side, FALSE, FALSE, FALSE)

\* first pass, script.js:220-247: the value written to position[i], None
\* where the array keeps its NaN.  The code's two ifs run in order, so the
\* second assignment wins when both conditions hold.
RawPosition(signal, entryThreshold, exitThreshold, logicType, side) ==
    IF signal = None \/ ZIsNaN(signal[1]) THEN None
    ELSE LET ge == ZCmp(signal[1], entryThreshold) >= 0
             le == ZCmp(signal[1], exitThreshold) <= 0
         IN  IF logicType = "trend" /\ side = "long"
             THEN (IF le THEN Some(0) ELSE IF ge THEN Some(1) ELSE None)
             ELSE IF logicType = "trend" /\ side = "short"
             THEN (IF le THEN Some(-1) ELSE IF ge THEN Some(0) ELSE None)
             ELSE IF logicType = "trend" /\ side = "both"
             THEN (IF le THEN Some(-1) ELSE IF ge THEN Some(1) ELSE None)
             ELSE IF logicType = "fast" /\ side = "long"
             THEN (IF ge THEN Some(1) ELSE Some(0))
             ELSE IF logicType = "fast" /\ side = "short"
             THEN (IF le THEN Some(-1) ELSE Some(0))
             ELSE IF logicType = "fast" /\ side = "both"
             THEN (IF le THEN Some(-1) ELSE IF ge THEN Some(1) ELSE None)
             ELSE None

\* mutant: fillna(0) without the forward fill
RECURSIVE ForwardFill_NoCarry(_, _)
ForwardFill_NoCarry(position, lastPosition) ==
    IF position = <<>> THEN <<>>
    ELSE <<IF Head(position) = None THEN 0 ELSE Head(position)[1]>>
             \o ForwardFill_NoCarry(Tail(position), lastPosition)

\* second pass, script.js:249-257: forward fill from lastPosition = 0
RECURSIVE ForwardFill(_, _)
ForwardFill(position, lastPosition) ==
    IF position = <<>> THEN <<>>
    ELSE LET p == IF Head(position) = None THEN lastPosition ELSE Head(position)[1]
         IN  <<p>> \o ForwardFill(Tail(position), p)

\* first pass over every bar (script.js:217-247)
RawPositions(data, entryThreshold, exitThreshold, logicType, side) ==
    [i \in 1..Len(data) |->
        RawPosition(data[i].zscore, entryThreshold, exitThreshold, logicType, side)]

\* the bars with their pos column (script.js:260-265)
generateSignals(data, entryThreshold, exitThreshold, logicType, side) ==
    LET position == ForwardFill(RawPositions(data, entryThreshold, exitThreshold,
                                             logicType, side), 0)
    IN  [i \in 1..Len(data) |-> data[i] @@ [pos |-> position[i]]]

-----------------------------------------------------------------------------
(* BacktestEngine.backtest, script.js:268-317: one operator per df.map pass *)

\* the number a whole number n is
FlFromInt(n) == FlFromRatio(n, 1)

\* (close - prev) / prev, script.js:283-284
PriceChange(close, prev) == FlDiv(FlSub(close, prev), prev)

\* script.js:279-286
PriceChangePass(d) ==
    [i \in 1..Len(d) |->
        d[i] @@ [priceChange |->
                    IF i = 1 THEN FlZero
                    ELSE PriceChange(FlFromInt(d[i].close),
                                     FlFromInt(d[i - 1].close))]]

\* mutant: posPrev is taken from the bar that follows
PosPrevPass_Lookahead(d) ==
    [i \in 1..Len(d) |-> d[i] @@ [posPrev |-> IF i = Len(d) THEN 0 ELSE d[i + 1].pos]]

\* mutant: posPrev is the bar's own position
PosPrevPass_Unshifted(d) ==
    [i \in 1..Len(d) |-> d[i] @@ [posPrev |-> d[i].pos]]

\* script.js:288-291
PosPrevPass(d) ==
    [i \in 1..Len(d) |-> d[i] @@ [posPrev |-> IF i = 1 THEN 0 ELSE d[i - 1].pos]]

\* mutant: the difference without Math.abs
TradesPass_Signed(d) ==
    [i \in 1..Len(d) |-> d[i] @@ [trades |-> d[i].posPrev - d[i].pos]]

\* script.js:293-296
TradesPass(d) ==
    [i \in 1..Len(d) |-> d[i] @@ [trades |-> Abs(d[i].posPrev - d[i].pos)]]

\* mutant: the bar's own position earns the bar's return
PnlPass_SameBar(d) ==
    [i \in 1..Len(d) |-> d[i] @@ [pnl |-> FlMul(FlFromInt(d[i].pos), d[i].priceChange)]]

\* script.js:298-301
PnlPass(d) ==
    [i \in 1..Len(d) |-> d[i] @@ [pnl |-> FlMul(FlFromInt(d[i].posPrev), d[i].priceChange)]]

\* script.js:303-307: the accumulator cumulativePnl after bar i
RECURSIVE CumulativePnlAt(_, _)
CumulativePnlAt(d, i) ==
    IF i = 0 THEN FlZero ELSE FlAdd(CumulativePnlAt(d, i - 1), d[i].pnl)

CumulativePnlPass(d) ==
    [i \in 1..Len(d) |-> d[i] @@ [cumulativePnl |-> CumulativePnlAt(d, i)]]

\* mutant: the peak is updated after the drawdown is taken
RECURSIVE MaxCumulativePnlAt_Late(_, _)
MaxCumulativePnlAt_Late(d, i) ==
    IF i <= 1 THEN FlZero
    ELSE FlMax(MaxCumulativePnlAt_Late(d, i - 1), d[i - 1].cumulativePnl)

\* script.js:309-311: the accumulator maxCumulativePnl after bar i
RECURSIVE MaxCumulativePnlAt(_, _)
MaxCumulativePnlAt(d, i) ==
    IF i = 0 THEN FlZero
    ELSE FlMax(MaxCumulativePnlAt(d, i - 1), d[i].cumulativePnl)

\* script.js:310-314
DrawdownPass(d) ==
    [i \in 1..Len(d) |->
        d[i] @@ [drawdown |-> FlSub(d[i].cumulativePnl, MaxCumulativePnlAt(d, i))]]

backtest(data, window, entryThreshold, exitThreshold, logicType, side) ==
    LET zs == calculateZScore(data, window)
        withSignal == [i \in 1..Len(zs) |-> zs[i] @@ [signal |-> zs[i].zscore]]
        positioned == generateSignals(withSignal, entryThreshold, exitThreshold,
                                      logicType, side)
    IN  DrawdownPass(CumulativePnlPass(PnlPass(TradesPass(PosPrevPass(
            PriceChangePass(positioned))))))

-----------------------------------------------------------------------------
(* The decision rule of checkTradingSignal, script.js:1376-1470 *)

\* script.js:1381-1395
TrendNextPosition(cur, z, entryThreshold, exitThreshold, side) ==
    IF side = "long"
    THEN (IF ZCmp(z, entryThreshold) > 0 THEN "long" ELSE "none")
    ELSE IF side = "short"
    THEN (IF ZCmp(z, exitThreshold) < 0 THEN "short" ELSE "none")
    ELSE IF ZCmp(z, entryThreshold) > 0 THEN "long"
    ELSE IF ZCmp(z, exitThreshold) < 0 THEN "short"
    ELSE cur

\* mutant: rules 3 and 4 keep the signal of an earlier rule
FastNextPosition_KeepsFirstSignal(cur, z, entryThreshold, exitThreshold, side) ==
    LET canShort == side \in {"short", "both"}
        canLong == side \in {"long", "both"}
        s0 == [pos |-> cur, sig |-> ""]
        s1 == IF canShort /\ cur = "short" /\ ZCmp(z, exitThreshold) > 0
              THEN [pos |-> "none", sig |-> "exit_short"] ELSE s0
        s2 == IF canLong /\ cur = "long" /\ ZCmp(z, entryThreshold) < 0
              THEN [pos |-> "none",
                    sig |-> IF s1.sig # "" THEN s1.sig ELSE "exit_long"]
              ELSE s1
        s3 == IF canLong /\ s2.pos = "none" /\ ZCmp(z, entryThreshold) > 0
              THEN [pos |-> "long",
                    sig |-> IF s2.sig # "" THEN s2.sig ELSE "entry_long"]
              ELSE s2
        s4 == IF canShort /\ s3.pos = "none" /\ ZCmp(z, exitThreshold) < 0
              THEN [pos |-> "short",
                    sig |-> IF s3.sig # "" THEN s3.sig ELSE "entry_short"]
              ELSE s3
    IN  IF s4.sig = "" /\ s4.pos = "none" THEN [pos |-> cur, sig |-> ""] ELSE s4

\* script.js:1396-1438: the four rules in order, then the keep-current rule;
\* the result is [pos, sig] (nextPosition, signalType; "" for null)
FastNextPosition(cur, z, entryThreshold, exitThreshold, side) ==
    LET canShort == side \in {"short", "both"}
        canLong == side \in {"long", "both"}
        s0 == [pos |-> cur, sig |-> ""]
        s1 == IF canShort /\ cur = "short" /\ ZCmp(z, exitThreshold) > 0
              THEN [pos |-> "none", sig |-> "exit_short"] ELSE s0
        s2 == IF canLong /\ cur = "long" /\ ZCmp(z, entryThreshold) < 0
              THEN [pos |-> "none",
                    sig |-> IF s1.sig # "" THEN s1.sig ELSE "exit_long"]
              ELSE s1
        s3 == IF canLong /\ s2.pos = "none" /\ ZCmp(z, entryThreshold) > 0
              THEN [pos |-> "long", sig |-> "entry_long"] ELSE s2
        s4 == IF canShort /\ s3.pos = "none" /\ ZCmp(z, exitThreshold) < 0
              THEN [pos |-> "short", sig |-> "entry_short"] ELSE s3
    IN  IF s4.sig = "" /\ s4.pos = "none" THEN [pos |-> cur, sig |-> ""] ELSE s4

\* script.js:1440-1451
SignalType(sig, cur, next) ==
    IF sig = "" /\ next # cur
    THEN (IF cur = "long" /\ next = "none" THEN "exit_long"
          ELSE IF cur = "short" /\ next = "none" THEN "exit_short"
          ELSE IF next = "long" THEN "entry_long"
          ELSE IF next = "short" THEN "entry_short"
          ELSE sig)
    ELSE sig

\* script.js:1377-1451: [pos, sig] for the position cur and the z-score z
Decide(cur, z, entryThreshold, exitThreshold, logicType, side) ==
    LET r == IF logicType = "trend"
             THEN [pos |-> TrendNextPosition(cur, z, entryThreshold,
                                             exitThreshold, side),
                   sig |-> ""]
             ELSE IF logicType = "fast"
             THEN FastNextPosition(cur, z, entryThreshold, exitThreshold, side)
             ELSE [pos |-> cur, sig |-> ""]
    IN  [pos |-> r.pos, sig |-> SignalType(r.sig, cur, r.pos)]

\* the batch engine's number for a live position
PosNum(p) == IF p = "long" THEN 1 ELSE IF p = "short" THEN -1 ELSE 0

-----------------------------------------------------------------------------
(* Inputs *)

LogicTypes == {"trend", "fast"}

Sides == {"long", "short", "both"}

\* what checkTradingSignal reads from the form (script.js:1275-1283)
LiveForms ==
    [logicType : {"trend"}, side : {"both"}, window : {2},
     entryThreshold : {<<1, 2>>}, exitThreshold : {<<-1, 2>>}]

\* closes of the series fetchRecentData may return
LiveSeries == {<<>>, <<1>>, <<1, 1>>, <<1, 2>>, <<2, 1>>}

Bars(closes) == [j \in 1..Len(closes) |-> [time |-> j, close |-> closes[j]]]

-----------------------------------------------------------------------------
(* The wall clock.  atStart: the clock is within the first second of the    *)
(* hour (minutes = 0 and seconds = 0).                                      *)

\* DataFetcher.getLastHourlyCandleTime, script.js:163-183, in hours
getLastHourlyCandleTime(clk) == IF clk.atStart THEN clk.hour - 1 ELSE clk.hour

\* new Date().getHours(), script.js:1586 and 1592
getHours(clk) == clk.hour % 24

\* the wall clock reaches the next hour; the hours after hour `last` are not
\* explored
HourRolloverUpTo(last) ==
    /\ clock.hour < last
    /\ clock' = [hour |-> clock.hour + 1, atStart |-> TRUE]
    /\ UNCHANGED <<isMonitoring, lastHourlyTimestamp, currentPosition,
                   monitorInterval, timers, ticks, sent, lastOp, submits, input, df, k>>

HourRollover == HourRolloverUpTo(MaxHour)

LeaveHourStart ==
    /\ clock.atStart
    /\ clock' = [clock EXCEPT !.atStart = FALSE]
    /\ UNCHANGED <<isMonitoring, lastHourlyTimestamp, currentPosition,
                   monitorInterval, timers, ticks, sent, lastOp, submits, input, df, k>>

-----------------------------------------------------------------------------
(* checkTradingSignal, script.js:1272-1503.  The function runs in three     *)
(* pieces: from its entry to the await of fetchRecentData, from there to    *)
(* the await of sendHourlyUpdate, and from there to its end.  A suspended   *)
(* call is a record of what it holds across its awaits: pc, where it waits; *)
(* ts, currentHourlyTimestamp; form, the fields it read; bar, the hour at   *)
(* whose start the range it asked fetchRecentData for ends, that is the     *)
(* bar that closed at the rollover into that hour; signalType, "" for null  *)
(* and before the decision; caller, who awaits the call.                    *)

\* DataFetcher.fetchRecentData, script.js:139-150: the range ends one
\* millisecond before the start of the current hour, also within the first
\* second of the hour
LastClosedBar(clk) == clk.hour

\* mutant: the comparison lets an equal timestamp through
HasNewHourlyCandle_NotStrict(last, ts) == last = None \/ ts >= last[1]

\* script.js:1299-1301
HasNewHourlyCandle(last, ts) == last = None \/ ts > last[1]

\* script.js:1303-1306: the early return
AlreadyProcessed(last, ts) == ~HasNewHourlyCandle(last, ts) /\ last # None

\* script.js:1273-1319: the call up to its first await, for the value `last`
\* of lastHourlyTimestamp at the call
TickEntry(caller, form, creds, last) ==
    LET ts == getLastHourlyCandleTime(clock)
    IN  IF ~creds
        THEN /\ ticks' = ticks
             /\ lastOp' = [op |-> "tickNoCreds", ts |-> 0]
        ELSE IF AlreadyProcessed(last, ts)
        THEN /\ ticks' = ticks
             /\ lastOp' = [op |-> "tickSkip", ts |-> 0]
        ELSE /\ ticks' = ticks (+) SetToBag({[pc |-> "fetch", ts |-> ts,
                                              caller |-> caller, form |-> form,
                                              bar |-> LastClosedBar(clock),
                                              signalType |-> ""]})
             /\ lastOp' = [op |-> "tickFetch", ts |-> 0]

\* the id setInterval returns: one that no live timer has (a browser never
\* reuses an id; the states here cannot tell a reused id from a new one)
FreeTimer == CHOOSE id \in 1..(Cardinality(DOMAIN timers) + 1) :
                /\ id \notin DOMAIN timers
                /\ \A j \in 1..(id - 1) : j \in DOMAIN timers

\* The end of the call t.  When handleStartMonitor awaits it, that handler
\* goes on (script.js:1585-1600): lastHour is read and the poll timer is
\* created.
TickEnds(t) ==
    IF t.caller = "start"
    THEN /\ timers' = [id \in DOMAIN timers \cup {FreeTimer} |->
                          IF id = FreeTimer THEN getHours(clock) ELSE timers[id]]
         /\ monitorInterval' = Some(FreeTimer)
    ELSE UNCHANGED <<timers, monitorInterval>>

\* mutant: the bar counts as processed although its fetch failed
FetchThrows_AdvancesTimestamp(t) ==
    /\ t.pc = "fetch"
    /\ ticks' = ticks (-) SetToBag({t})
    /\ TickEnds(t)
    /\ lastOp' = [op |-> "fetchThrows", ts |-> t.ts]
    /\ lastHourlyTimestamp' = Some(t.ts)
    /\ UNCHANGED <<isMonitoring, currentPosition, clock, sent, submits, input, df, k>>

\* script.js:1314 and 1499-1502: fetchRecentData throws
FetchThrows(t) ==
    /\ t.pc = "fetch"
    /\ ticks' = ticks (-) SetToBag({t})
    /\ TickEnds(t)
    /\ lastOp' = [op |-> "fetchThrows", ts |-> t.ts]
    /\ UNCHANGED <<isMonitoring, lastHourlyTimestamp, currentPosition, clock,
                   sent, submits, input, df, k>>

\* mutant: a failed send puts the position back to none
PositionAfterSend_Rollback(cur, hourlySent) == IF hourlySent THEN cur ELSE "none"

\* script.js:1488-1498: what the code does to currentPosition once the send
\* has completed with result hourlySent
PositionAfterSend(cur, hourlySent) == cur

\* script.js:1321-1486: fetchRecentData returns bars with these closes and
\* the call goes on to its next await or to its end
AfterFetch(t, closes) ==
    /\ t.pc = "fetch"
    /\ \E zscoreData \in {calculateZScore(Bars(closes), t.form.window)} :
       LET f == t.form
           recentData == Bars(closes)
       IN  IF Len(recentData) < f.window
           THEN /\ ticks' = ticks (-) SetToBag({t})
                /\ TickEnds(t)
                /\ lastOp' = [op |-> "notEnoughData", ts |-> t.ts]
                /\ UNCHANGED <<lastHourlyTimestamp, currentPosition, sent>>
           ELSE IF \/ Len(zscoreData) = 0
                   \/ zscoreData[Len(zscoreData)].zscore = None
                   \/ ZIsNaN(zscoreData[Len(zscoreData)].zscore[1])
           THEN /\ ticks' = ticks (-) SetToBag({t})
                /\ TickEnds(t)
                /\ lastOp' = [op |-> "zscoreFailed", ts |-> t.ts]
                /\ UNCHANGED <<lastHourlyTimestamp, currentPosition, sent>>
           ELSE \E r \in {Decide(currentPosition,
                                  zscoreData[Len(zscoreData)].zscore[1],
                                  f.entryThreshold, f.exitThreshold,
                                  f.logicType, f.side)} :
                /\ lastHourlyTimestamp' = Some(t.ts)
                /\ currentPosition' = r.pos
                /\ sent' = [ts |-> t.ts,
                             n |-> IF sent.ts = t.ts THEN sent.n + 1 ELSE 1]
                /\ ticks' = (ticks (-) SetToBag({t}))
                                (+) SetToBag({[t EXCEPT !.pc = "send",
                                                        !.signalType = r.sig]})
                /\ lastOp' = [op |-> "evaluated", ts |-> t.ts]
                /\ UNCHANGED <<timers, monitorInterval>>
    /\ UNCHANGED <<isMonitoring, clock, submits, input, k>>

FetchReturns(t, closes) == AfterFetch(t, closes) /\ df' = df

\* script.js:1475-1498: sendHourlyUpdate completes; sendMessage returns
\* false when the request throws or the reply is not ok (script.js:546-568)
SendCompletes(t, hourlySent) ==
    /\ t.pc = "send"
    /\ currentPosition' = PositionAfterSend(currentPosition, hourlySent)
    /\ ticks' = ticks (-) SetToBag({t})
    /\ TickEnds(t)
    /\ lastOp' = [op |-> IF hourlySent THEN "sendOk" ELSE "sendFailed",
                  ts |-> t.ts]
    /\ UNCHANGED <<isMonitoring, lastHourlyTimestamp, clock, sent, submits, input, df, k>>

-----------------------------------------------------------------------------
(* handleStartMonitor, handleStopMonitor and the poll timer *)

NoUpdates == [ts |-> 0, n |-> 0]

\* calls in flight that handleStartMonitor awaits
StartPending == BagCardinality([t \in {u \in BagToSet(ticks) : u.caller = "start"}
                                   |-> ticks[t]])

\* the part of the program's behaviour that is explored: at most MaxTicks
\* calls of checkTradingSignal and MaxSubmits calls of handleBacktestSubmit in
\* flight, and at most MaxTimers timers alive or about to be created
WithinBounds ==
    /\ BagCardinality(ticks) <= MaxTicks
    /\ BagCardinality(submits) <= MaxSubmits
    /\ Cardinality(DOMAIN timers) + StartPending <= MaxTimers

\* script.js:1556-1583: the click handler up to its await.  creds: the token
\* and chat id fields are both filled in.
handleStartMonitor(creds, form) ==
    /\ IF ~creds \/ isMonitoring
       THEN UNCHANGED <<isMonitoring, lastHourlyTimestamp, currentPosition,
                        ticks, sent, lastOp>>
       ELSE /\ isMonitoring' = TRUE
            /\ lastHourlyTimestamp' = None
            /\ currentPosition' = "none"
            /\ sent' = NoUpdates
            /\ TickEntry("start", form, creds, None)
    /\ UNCHANGED <<monitorInterval, timers, clock, submits, input, df, k>>

\* script.js:1606-1637
handleStopMonitor ==
    /\ IF ~isMonitoring
       THEN UNCHANGED <<isMonitoring, lastHourlyTimestamp, currentPosition,
                        monitorInterval, timers, lastOp>>
       ELSE /\ isMonitoring' = FALSE
            /\ lastHourlyTimestamp' = None
            /\ IF monitorInterval # None
               THEN /\ timers' = [id \in DOMAIN timers \ {monitorInterval[1]} |->
                                     timers[id]]
                    /\ monitorInterval' = None
               ELSE UNCHANGED <<timers, monitorInterval>>
            /\ currentPosition' = "none"
            /\ lastOp' = [op |-> "stop", ts |-> 0]
    /\ UNCHANGED <<ticks, clock, sent, submits, input, df, k>>

\* mutant: the callback does not look at isMonitoring
TimerMayRun_Always(monitoring) == TRUE

\* script.js:1589: the callback goes on only while monitoring
TimerMayRun(monitoring) == monitoring

\* script.js:1588-1600: one run of the setInterval callback of timer id
TimerFires(id, creds, form) ==
    /\ id \in DOMAIN timers
    /\ IF ~TimerMayRun(isMonitoring)
       THEN /\ lastOp' = [op |-> "timerStopped", ts |-> clock.hour]
            /\ UNCHANGED <<timers, ticks>>
       ELSE IF getHours(clock) = timers[id]
       THEN UNCHANGED <<timers, ticks, lastOp>>
       ELSE /\ timers' = [timers EXCEPT ![id] = getHours(clock)]
            /\ TickEntry("timer", form, creds, lastHourlyTimestamp)
    /\ UNCHANGED <<isMonitoring, lastHourlyTimestamp, currentPosition,
                   monitorInterval, clock, sent, submits, input, df, k>>

-----------------------------------------------------------------------------
(* handleBacktestSubmit, script.js:1042-1175.  The form's fields hold       *)
(* numbers here, so the isNaN tests of the validation never fire.  The      *)
(* handler reads isMonitoring and the form when the form is submitted and   *)
(* then waits for fetchHistoricalData; what it does with the data does not  *)
(* look at isMonitoring again.                                              *)

\* script.js:1080-1084
InvalidWindow(form) == form.window <= 0 \/ form.window > 1000

\* script.js:1090-1094
InvalidEntryThreshold(form) ==
    RatCmp(form.entryThreshold, RatZero) <= 0 \/ RatCmp(form.entryThreshold, <<5, 1>>) > 0

\* script.js:1100-1104
InvalidExitThreshold(form) ==
    RatCmp(form.exitThreshold, RatZero) >= 0 \/ RatCmp(form.exitThreshold, <<-5, 1>>) < 0

\* script.js:1080-1115: the validations, then the call of fetchHistoricalData
SubmitValidated(form) ==
    IF InvalidWindow(form)
    THEN /\ lastOp' = [op |-> "invalidWindow", ts |-> 0]
         /\ submits' = submits
    ELSE IF InvalidEntryThreshold(form)
    THEN /\ lastOp' = [op |-> "invalidEntryThreshold", ts |-> 0]
         /\ submits' = submits
    ELSE IF InvalidExitThreshold(form)
    THEN /\ lastOp' = [op |-> "invalidExitThreshold", ts |-> 0]
         /\ submits' = submits
    ELSE /\ lastOp' = [op |-> "backtestFetch", ts |-> 0]
         /\ submits' = submits (+) SetToBag({form})

\* mutant: the handler does not look at isMonitoring
handleBacktestSubmit_Unguarded(form) ==
    /\ SubmitValidated(form)
    /\ UNCHANGED <<isMonitoring, lastHourlyTimestamp, currentPosition,
                   monitorInterval, timers, ticks, clock, sent, input, df, k>>

\* script.js:1042-1115: the submit handler up to its await
handleBacktestSubmit(form) ==
    /\ IF isMonitoring
       THEN /\ lastOp' = [op |-> "backtestBlocked", ts |-> 0]
            /\ submits' = submits
       ELSE SubmitValidated(form)
    /\ UNCHANGED <<isMonitoring, lastHourlyTimestamp, currentPosition,
                   monitorInterval, timers, ticks, clock, sent, input, df, k>>

\* script.js:1115-1172: the handler goes on after its await, with the form
\* data it read at the submit; fetched is None when fetchHistoricalData
\* throws and Some(closes) when it returns
BacktestResumes(form, fetched) ==
    /\ BagIn(form, submits)
    /\ submits' = submits (-) SetToBag({form})
    /\ IF fetched = None
       THEN /\ lastOp' = [op |-> "backtestFailed", ts |-> 0]
            /\ df' = df
       ELSE /\ lastOp' = [op |-> "backtest", ts |-> 0]
            /\ df' = backtest(Bars(fetched[1]), form.window, form.entryThreshold,
                              form.exitThreshold, form.logicType, form.side)
    /\ UNCHANGED <<isMonitoring, lastHourlyTimestamp, currentPosition,
                   monitorInterval, timers, ticks, clock, sent, input, k>>

-----------------------------------------------------------------------------
(* The live monitor *)

Init ==
    /\ isMonitoring = FALSE
    /\ lastHourlyTimestamp = None
    /\ currentPosition = "none"
    /\ monitorInterval = None
    /\ timers = <<>>
    /\ ticks = EmptyBag
    /\ clock \in [hour : {1}, atStart : BOOLEAN]
    /\ sent = NoUpdates
    /\ lastOp = [op |-> "init", ts |-> 0]
    /\ submits = EmptyBag
    /\ input = None
    /\ df = <<>>
    /\ k = 0

Next ==
    \/ \E creds \in BOOLEAN, form \in LiveForms :
          handleStartMonitor(creds, form) /\ WithinBounds'
    \/ handleStopMonitor
    \/ \E id \in DOMAIN timers, creds \in BOOLEAN, form \in LiveForms :
          TimerFires(id, creds, form) /\ WithinBounds'
    \/ \E t \in BagToSet(ticks) : FetchThrows(t)
    \/ \E t \in BagToSet(ticks), closes \in LiveSeries : FetchReturns(t, closes)
    \/ \E t \in BagToSet(ticks), hourlySent \in BOOLEAN : SendCompletes(t, hourlySent)
    \/ HourRollover
    \/ LeaveHourStart

Spec == Init /\ [][Next]_vars

-----------------------------------------------------------------------------
(* The batch engine alone: backtest applied to bounded inputs *)

Thresholds == {[entry |-> <<1, 1>>, exit |-> <<-1, 1>>],
               [entry |-> <<1, 2>>, exit |-> <<-1, 2>>]}

PriceSeries == UNION {[1..n -> 1..MaxPrice] : n \in 1..MaxLen}

BatchInputs ==
    [closes : PriceSeries, window : 1..MaxWindow, thresholds : Thresholds,
     logicType : LogicTypes, side : Sides]

MonitorIdle ==
    /\ isMonitoring = FALSE
    /\ lastHourlyTimestamp = None
    /\ currentPosition = "none"
    /\ monitorInterval = None
    /\ timers = <<>>
    /\ ticks = EmptyBag
    /\ clock = [hour |-> 1, atStart |-> FALSE]
    /\ sent = NoUpdates
    /\ lastOp = [op |-> "init", ts |-> 0]
    /\ submits = EmptyBag

InitBatch ==
    /\ MonitorIdle
    /\ input \in BatchInputs
    /\ df = <<>>
    /\ k = 0

\* backtestEngine.backtest(priceData, window, entry, exit, logic, side)
RunBacktest ==
    /\ df = <<>>
    /\ df' = backtest(Bars(input.closes), input.window, input.thresholds.entry,
                      input.thresholds.exit, input.logicType, input.side)
    /\ UNCHANGED <<monitorVars, input, k>>

SpecBatch == InitBatch /\ [][RunBacktest]_vars

-----------------------------------------------------------------------------
(* The two ways into the engine: the backtest form's submit handler and the *)
(* first tick of a monitoring session, both reading the same fields of the  *)
(* page.  input is what the fields hold.                                    *)

\* values a user can type into the window and threshold fields
FieldValues ==
    [logicType : {"trend"}, side : {"both"}, window : {0, 2, 1001},
     entryThreshold : {<<0, 1>>, <<1, 2>>, <<6, 1>>},
     exitThreshold : {<<-6, 1>>, <<-1, 2>>, <<0, 1>>}]

InitEntry ==
    /\ MonitorIdle
    /\ input \in FieldValues
    /\ df = <<>>
    /\ k = 0

NextEntry ==
    \/ handleBacktestSubmit(input) /\ WithinBounds'
    \/ \E form \in BagToSet(submits),
          fetched \in {None} \cup {Some(closes) : closes \in LiveSeries} :
          BacktestResumes(form, fetched)
    \/ \E creds \in BOOLEAN : handleStartMonitor(creds, input) /\ WithinBounds'
    \/ handleStopMonitor
    \/ \E t \in BagToSet(ticks) : FetchThrows(t)
    \/ \E t \in BagToSet(ticks), closes \in LiveSeries : FetchReturns(t, closes)
    \/ \E t \in BagToSet(ticks), hourlySent \in BOOLEAN : SendCompletes(t, hourlySent)

SpecEntry == InitEntry /\ [][NextEntry]_vars

-----------------------------------------------------------------------------
(* The live monitor with the window field as the user left it: 2, or the    *)
(* out-of-range 0 that the live path does not reject.  input is the form.   *)

FaultForms ==
    [logicType : {"trend"}, side : {"both"}, window : {0, 2},
     entryThreshold : {<<1, 2>>}, exitThreshold : {<<-1, 2>>}]

InitFaults ==
    /\ isMonitoring = FALSE
    /\ lastHourlyTimestamp = None
    /\ currentPosition = "none"
    /\ monitorInterval = None
    /\ timers = <<>>
    /\ ticks = EmptyBag
    /\ clock \in [hour : {1}, atStart : BOOLEAN]
    /\ sent = NoUpdates
    /\ lastOp = [op |-> "init", ts |-> 0]
    /\ submits = EmptyBag
    /\ input \in FaultForms
    /\ df = <<>>
    /\ k = 0

NextFaults ==
    \/ \E creds \in BOOLEAN : handleStartMonitor(creds, input) /\ WithinBounds'
    \/ handleStopMonitor
    \/ \E id \in DOMAIN timers, creds \in BOOLEAN :
          TimerFires(id, creds, input) /\ WithinBounds'
    \/ \E t \in BagToSet(ticks) : FetchThrows(t)
    \/ \E t \in BagToSet(ticks), closes \in LiveSeries : FetchReturns(t, closes)
    \/ \E t \in BagToSet(ticks), hourlySent \in BOOLEAN : SendCompletes(t, hourlySent)
    \/ HourRollover
    \/ LeaveHourStart

SpecFaults == InitFaults /\ [][NextFaults]_vars

-----------------------------------------------------------------------------
(* The live decision rule alone: z-scores fed one per tick *)

\* thresholds, the last pair with exit above entry
LiveThresholds == Thresholds \cup {[entry |-> <<-1, 1>>, exit |-> <<1, 1>>]}

ZValues == {[num |-> n, rad |-> 1, off |-> 0] : n \in -2..2}

ZSeqs == UNION {[1..n -> ZValues] : n \in 1..MaxZLen}

RuleInputs ==
    [zs : ZSeqs, thresholds : LiveThresholds, logicType : LogicTypes, side : Sides]

InitRule ==
    /\ MonitorIdle
    /\ input \in RuleInputs
    /\ df = <<>>
    /\ k = 0

\* script.js:1376-1470 for the next z-score of the sequence
FeedTick ==
    /\ k < Len(input.zs)
    /\ currentPosition' = Decide(currentPosition, input.zs[k + 1],
                                 input.thresholds.entry, input.thresholds.exit,
                                 input.logicType, input.side).pos
    /\ k' = k + 1
    /\ UNCHANGED <<isMonitoring, lastHourlyTimestamp, monitorInterval, timers,
                   ticks, clock, sent, lastOp, submits, input, df>>

SpecRule == InitRule /\ [][FeedTick]_vars

-----------------------------------------------------------------------------
(* One monitoring session that stays active: the start button is clicked    *)
(* in hour 1, after its first second, and never the stop button; the        *)
(* credentials are filled in and every fetch returns window bars whose last *)
(* z-score is a number.  The form is read anew at each tick: the logic and  *)
(* the side may differ from one tick to the next (script.js:1275-1276);     *)
(* input holds the thresholds, which stay as they are.  The clock moves     *)
(* only during the session, no hour ends within its first second, and no    *)
(* hour ends before a live poll timer has run in it (the timer runs every   *)
(* 10 seconds, script.js:1600).  A fetch or a send may take any time short  *)
(* of an hour, also across one hour change.  df keeps what the ticks have   *)
(* done: the position before and after the latest evaluation, the logic     *)
(* and side that tick read, the signal it ended with, and the bars          *)
(* evaluated so far.                                                        *)

\* what the form holds at a tick: any logic and side
SessionForms ==
    [logicType : LogicTypes, side : Sides, window : {3},
     entryThreshold : {input.thresholds.entry},
     exitThreshold : {input.thresholds.exit}]

\* closes whose last z-score for window 3 is, in this order, sqrt 2,
\* 1 / sqrt 2, 0, -1 / sqrt 2 and -sqrt 2
SessionSeries == {<<1, 1, 2>>, <<1, 2, 2>>, <<1, 3, 2>>, <<2, 1, 1>>, <<2, 2, 1>>}

\* every live poll timer has seen the current hour
PolledThisHour == \A id \in DOMAIN timers : timers[id] = getHours(clock)

\* every call in flight began in the current hour
BeganThisHour == \A t \in BagToSet(ticks) : t.bar = LastClosedBar(clock)

SessionRollover ==
    /\ isMonitoring
    /\ ~clock.atStart
    /\ PolledThisHour
    /\ BeganThisHour
    /\ HourRolloverUpTo(MaxSessionHour)

SessionStart ==
    \E form \in SessionForms :
        ~isMonitoring /\ handleStartMonitor(TRUE, form) /\ WithinBounds'

SessionTimerFires ==
    \E id \in DOMAIN timers, form \in SessionForms :
        TimerFires(id, TRUE, form) /\ WithinBounds'

\* the bars evaluated so far in the session
EvaluatedBars == IF df = <<>> THEN {} ELSE df.bars

\* the call t has gone on from its fetch: if it got to its decision
\* (script.js:1376-1470) df takes what it did, read off the program's state
\* before and after the step and off the call as it waits for its send
Evaluation(t) ==
    IF lastOp'.op = "evaluated"
    THEN \E u \in BagToSet(ticks') :
            /\ u.pc = "send"
            /\ [u EXCEPT !.signalType = ""] = [t EXCEPT !.pc = "send"]
            /\ CopiesIn(u, ticks') > CopiesIn(u, ticks)
            /\ df' = [old |-> currentPosition, new |-> currentPosition',
                      logicType |-> u.form.logicType, side |-> u.form.side,
                      signalType |-> u.signalType,
                      bars |-> EvaluatedBars \cup {u.bar}]
    ELSE df' = df

SessionFetchReturns ==
    \E t \in BagToSet(ticks), closes \in SessionSeries :
        AfterFetch(t, closes) /\ Evaluation(t)

SessionSendCompletes ==
    \E t \in BagToSet(ticks), hourlySent \in BOOLEAN : SendCompletes(t, hourlySent)

InitSession ==
    /\ MonitorIdle
    /\ input \in [thresholds : LiveThresholds]
    /\ df = <<>>
    /\ k = 0

NextSession ==
    \/ SessionStart
    \/ SessionTimerFires
    \/ SessionFetchReturns
    \/ SessionSendCompletes
    \/ SessionRollover
    \/ LeaveHourStart

\* the timer keeps firing, requests complete and time passes
SpecSession ==
    /\ InitSession /\ [][NextSession]_vars
    /\ WF_vars(SessionTimerFires)
    /\ WF_vars(SessionFetchReturns)
    /\ WF_vars(SessionSendCompletes)
    /\ WF_vars(SessionRollover)
    /\ WF_vars(LeaveHourStart)

\* the z-scores as bars for generateSignals
ZBars(zs) == [i \in 1..Len(zs) |-> [zscore |-> Some(zs[i])]]

-----------------------------------------------------------------------------
(* MetricsCalculator, script.js:324-449.  A bar's time is its hour number.  *)

\* new MetricsCalculator("1h"), script.js:326-337 and 796
annualizer == 365 * 24

Pad2(n) == IF n < 10 THEN "0" \o ToString(n) ELSE ToString(n)

\* script.js:428: date.toISOString().replace("T", " ").substring(0, 19) for
\* the date t hours after the epoch (within January 1970)
FormatDate(t) ==
    "1970-01-" \o Pad2(t \div 24 + 1) \o " " \o Pad2(t % 24) \o ":00:00"

\* mutant: every change away from a position counts as its end
TradeEnds_CountsFlips(d) ==
    {i \in 1..Len(d) : (IF i = 1 THEN 0 ELSE d[i - 1].pos) # 0
                       /\ d[i].pos # (IF i = 1 THEN 0 ELSE d[i - 1].pos)}

\* script.js:344-350: the indexes where a position goes back to 0
TradeEnds(d) ==
    {i \in 1..Len(d) : (IF i = 1 THEN 0 ELSE d[i - 1].pos) # 0 /\ d[i].pos = 0}

\* script.js:360-363: the while loop and the increment after it
RECURSIVE TradeStart(_, _, _)
TradeStart(d, startIdx, endPos) ==
    IF startIdx >= 1 /\ d[startIdx].pos = endPos
    THEN TradeStart(d, startIdx - 1, endPos)
    ELSE startIdx + 1

\* script.js:366-367: tradePnl > 0 for the trade from startIdx to endIdx
TradeWon(d, startIdx, endIdx) ==
    FlGreater(FlSub(d[endIdx].cumulativePnl, d[startIdx].cumulativePnl), FlZero)

\* script.js:357-371
WinningTrades(d) ==
    {endIdx \in TradeEnds(d) :
        LET startIdx == TradeStart(d, endIdx - 1, d[endIdx - 1].pos)
        IN  startIdx < endIdx /\ TradeWon(d, startIdx, endIdx)}

\* script.js:340-376
calculateWinRate(d) ==
    IF TradeEnds(d) = {} THEN FlZero
    ELSE FlMul(FlDiv(FlFromInt(Cardinality(WinningTrades(d))),
                     FlFromInt(Cardinality(TradeEnds(d)))),
               FlFromInt(100))

\* script.js:434-448
emptyMetrics ==
    [key \in {"Sharpe Ratio", "Calmar Ratio", "Max Drawdown",
              "Annualized Return", "Total Return", "Number of Trades",
              "Trade Frequency %", "Win Rate %", "Start Date", "End Date",
              "Period (days)"} |->
        CASE key \in {"Sharpe Ratio", "Calmar Ratio"} -> FlNaN
          [] key = "Period (days)" -> 0
          [] key \in {"Start Date", "End Date"} -> "N/A"
          [] OTHER -> FlZero]

\* the columns of validDf, script.js:387-389
PnlOf(validDf) == [i \in 1..Len(validDf) |-> validDf[i].pnl]

DrawdownOf(validDf) == [i \in 1..Len(validDf) |-> validDf[i].drawdown]

\* script.js:390 and 407: the trades column is of whole numbers
NumTrades(validDf) == SumSeq([i \in 1..Len(validDf) |-> validDf[i].trades])

\* script.js:397-400
SharpeRatio(n, meanPnl, stdPnl) ==
    IF n > 1 /\ stdPnl # FlZero
    THEN FlMul(FlDiv(meanPnl, stdPnl), FlSqrt(FlFromInt(annualizer)))
    ELSE FlNaN

\* script.js:404-405
CalmarRatio(annualizedReturn, maxDrawdown) ==
    IF maxDrawdown # FlZero THEN FlDiv(annualizedReturn, FlAbs(maxDrawdown)) ELSE FlNaN

\* script.js:408-410
TradeFrequency(numTrades, effectivePeriods) ==
    IF effectivePeriods > 0
    THEN FlMul(FlDiv(FlFromInt(numTrades), FlFromInt(effectivePeriods)), FlFromInt(100))
    ELSE FlZero

\* script.js:397-431, from the statistics of the pnl column; toFixed of NaN
\* is the text "NaN", which Number reads as NaN
MetricsFrom(validDf, window, n, meanPnl, stdPnl, maxDrawdown, annualizedReturn) ==
    [key \in DOMAIN emptyMetrics |->
        CASE key = "Sharpe Ratio" -> FlFixed(SharpeRatio(n, meanPnl, stdPnl), 4)
          [] key = "Calmar Ratio" -> FlFixed(CalmarRatio(annualizedReturn, maxDrawdown), 4)
          [] key = "Max Drawdown" -> FlFixed(maxDrawdown, 4)
          [] key = "Annualized Return" -> FlFixed(annualizedReturn, 4)
          [] key = "Total Return" -> FlFixed(validDf[n].cumulativePnl, 4)
          [] key = "Number of Trades" -> FlFromInt(NumTrades(validDf))
          [] key = "Trade Frequency %" ->
                 FlFixed(TradeFrequency(NumTrades(validDf), n - window), 4)
          [] key = "Win Rate %" -> FlFixed(calculateWinRate(validDf), 2)
          [] key = "Start Date" -> FormatDate(validDf[1].time)
          [] key = "End Date" -> FormatDate(validDf[n].time)
          [] key = "Period (days)" -> (validDf[n].time - validDf[1].time) \div 24]

\* script.js:393-403
MetricsAround(validDf, window, n, meanPnl) ==
    MetricsFrom(validDf, window, n, meanPnl,
                FlSqrt(FlDiv(FlSumSquaredDev(PnlOf(validDf), meanPnl, FlZero),
                             FlFromInt(n))),
                FlMinOf(DrawdownOf(validDf)),
                FlMul(meanPnl, FlFromInt(annualizer)))

\* script.js:383-392
MetricsOf(validDf, window) ==
    IF Len(validDf) = 0 THEN emptyMetrics
    ELSE MetricsAround(validDf, window, Len(validDf),
                       FlDiv(FlSum(PnlOf(validDf), FlZero), FlFromInt(Len(validDf))))

\* script.js:378-432
calculateAllMetrics(d, window) ==
    MetricsOf(SelectSeq(d, LAMBDA item : ~FlIsNaN(item.pnl)), window)

-----------------------------------------------------------------------------
(* StrategyEvaluator, script.js:455-528.  A reason line is kept as its     *)
(* parts: the mark (pass for the check mark, fail for the cross), the       *)
(* metric's name, the text of the value shown and the bound shown.          *)

\* new StrategyEvaluator(), script.js:456-466 and 797
DefaultEvaluator ==
    [minSharpeRatio |-> <<1, 1>>, minCalmarRatio |-> <<1, 1>>,
     maxDrawdownThreshold |-> <<-3, 10>>, minTrades |-> 10]

Reason(mark, name, value, bound) ==
    [mark |-> mark, name |-> name, value |-> value, bound |-> bound]

\* the number a threshold <<n, d>> is
FlThreshold(t) == FlFromRatio(t[1], t[2])

\* !isNaN(x) && x >= threshold, script.js:474 and 489
RatioPasses(x, threshold) == ~FlIsNaN(x) /\ FlAtLeast(x, FlThreshold(threshold))

\* isNaN(x) ? "N/A" : x.toFixed(2), script.js:482 and 497; on the passing
\* branch x is no NaN
RatioShown(x) == IF FlIsNaN(x) THEN WordText("N/A", FALSE) ELSE FlToFixed(x, 2)

\* script.js:473-486
SharpeCheck(this, metrics) ==
    Reason(IF RatioPasses(metrics["Sharpe Ratio"], this.minSharpeRatio)
           THEN "pass" ELSE "fail",
           "Sharpe Ratio", RatioShown(metrics["Sharpe Ratio"]), this.minSharpeRatio)

\* script.js:488-501
CalmarCheck(this, metrics) ==
    Reason(IF RatioPasses(metrics["Calmar Ratio"], this.minCalmarRatio)
           THEN "pass" ELSE "fail",
           "Calmar Ratio", RatioShown(metrics["Calmar Ratio"]), this.minCalmarRatio)

\* mutant: the check is "not below the threshold", which NaN passes
DrawdownPasses_NotBelow(mdd, threshold) ==
    FlIsNaN(mdd) \/ FlAtLeast(mdd, FlThreshold(threshold))

\* mdd >= threshold, script.js:505; a comparison with NaN is false
DrawdownPasses(mdd, threshold) == FlAtLeast(mdd, FlThreshold(threshold))

\* script.js:503-514
DrawdownCheck(this, metrics) ==
    Reason(IF DrawdownPasses(metrics["Max Drawdown"], this.maxDrawdownThreshold)
           THEN "pass" ELSE "fail",
           "Max Drawdown", FlToFixed(metrics["Max Drawdown"], 4),
           this.maxDrawdownThreshold)

\* numTrades >= minTrades, script.js:518; a comparison with NaN is false
EnoughTrades(numTrades, minTrades) == FlAtLeast(numTrades, FlFromInt(minTrades))

\* `${numTrades}`, script.js:520-522: the text of a whole number below 10^21
\* is the one toFixed(0) gives, and that of NaN is "NaN"
CountShown(numTrades) == FlToFixed(numTrades, 0)

\* script.js:516-523
TradesCheck(this, metrics) ==
    Reason(IF EnoughTrades(metrics["Number of Trades"], this.minTrades)
           THEN "pass" ELSE "fail",
           "Number of Trades", CountShown(metrics["Number of Trades"]),
           <<this.minTrades, 1>>)

\* the checks that passed among the reasons
PassedChecks(reasons) == Cardinality({i \in 1..Len(reasons) : reasons[i].mark = "pass"})

\* mutant: the evaluation stops at the first check that fails
evaluate_EarlyExit(this, metrics) ==
    LET all == <<SharpeCheck(this, metrics), CalmarCheck(this, metrics),
                 DrawdownCheck(this, metrics), TradesCheck(this, metrics)>>
        failed == {i \in 1..4 : all[i].mark = "fail"}
        stop == IF failed = {} THEN 4
                ELSE CHOOSE i \in failed : \A j \in failed : i <= j
    IN  [isRecommended |-> failed = {}, reasons |-> SubSeq(all, 1, stop)]

\* mutant: one passed check is enough for a recommendation
evaluate_AnyCheck(this, metrics) ==
    LET reasons == <<SharpeCheck(this, metrics), CalmarCheck(this, metrics),
                     DrawdownCheck(this, metrics), TradesCheck(this, metrics)>>
    IN  [isRecommended |-> PassedChecks(reasons) >= 1, reasons |-> reasons]

\* script.js:468-527; totalChecks is 4 at the end
evaluate(this, metrics) ==
    LET reasons == <<SharpeCheck(this, metrics), CalmarCheck(this, metrics),
                     DrawdownCheck(this, metrics), TradesCheck(this, metrics)>>
    IN  [isRecommended |-> PassedChecks(reasons) = 4, reasons |-> reasons]

\* the entries of a metrics record that evaluate reads
EvaluatedMetrics(sharpe, calmar, mdd, numTrades) ==
    ("Sharpe Ratio" :> sharpe) @@ ("Calmar Ratio" :> calmar)
        @@ ("Max Drawdown" :> mdd) @@ ("Number of Trades" :> numTrades)

\* ratios as calculateAllMetrics keeps them, of 4 decimals, and NaN
RatioValues ==
    {FlNaN, FlFromRatio(1, 2), FlFromRatio(9999, 10000), FlFromRatio(1, 1),
     FlFromRatio(6, 5)}

DrawdownValues ==
    {FlNaN, FlFromRatio(-1, 2), FlFromRatio(-3, 10), FlFromRatio(-1, 10), FlZero}

TradeCounts == {FlNaN, FlZero, FlFromInt(9), FlFromInt(10), FlFromInt(15)}

Evaluators ==
    {DefaultEvaluator,
     [minSharpeRatio |-> <<6, 5>>, minCalmarRatio |-> <<1, 2>>,
      maxDrawdownThreshold |-> <<-1, 10>>, minTrades |-> 15]}

InitEvaluate ==
    /\ MonitorIdle
    /\ \E sharpe \in RatioValues, calmar \in RatioValues,
          mdd \in DrawdownValues, numTrades \in TradeCounts, ev \in Evaluators :
          input = [metrics |-> EvaluatedMetrics(sharpe, calmar, mdd, numTrades),
                   evaluator |-> ev]
    /\ df = <<>>
    /\ k = 0

\* strategyEvaluator.evaluate(metrics), script.js:1141
RunEvaluate ==
    /\ df = <<>>
    /\ df' = evaluate(input.evaluator, input.metrics)
    /\ UNCHANGED <<monitorVars, input, k>>

SpecEvaluate == InitEvaluate /\ [][RunEvaluate]_vars

-----------------------------------------------------------------------------
(* Backtest and metrics: calculateAllMetrics applied to the result of       *)
(* backtest, as handleBacktestSubmit does (script.js:1125-1138)             *)

\* closes of a long trade that earns 1/10 and 1/5 and loses 3/10: the sums
\* of the code's numbers leave 2^-54 where the exact sum is 0
ResidueCloses == <<225, 250, 275, 330, 231>>

MetricsInputs ==
    [closes : PriceSeries \cup {<<>>, ResidueCloses}, window : 1..MaxWindow,
     thresholds : Thresholds, logicType : LogicTypes, side : Sides]

InitMetrics ==
    /\ MonitorIdle
    /\ input \in MetricsInputs
    /\ df = <<>>
    /\ k = 0

\* script.js:1125-1138; k counts the call
RunMetrics ==
    /\ k = 0
    /\ df' = calculateAllMetrics(
                 backtest(Bars(input.closes), input.window, input.thresholds.entry,
                          input.thresholds.exit, input.logicType, input.side),
                 input.window)
    /\ k' = 1
    /\ UNCHANGED <<monitorVars, input>>

SpecMetrics == InitMetrics /\ [][RunMetrics]_vars

-----------------------------------------------------------------------------
(* Backtest, metrics and evaluation, as handleBacktestSubmit runs them one  *)
(* after the other with the default evaluator (script.js:1125-1141)         *)

InitRecommend ==
    /\ MonitorIdle
    /\ input \in MetricsInputs
    /\ df = <<>>
    /\ k = 0

\* k counts the call; df keeps the rows, the metrics and the evaluation
RunRecommend ==
    /\ k = 0
    /\ \E rows \in {backtest(Bars(input.closes), input.window,
                              input.thresholds.entry, input.thresholds.exit,
                              input.logicType, input.side)} :
         \E metrics \in {calculateAllMetrics(rows, input.window)} :
            df' = [rows |-> rows, metrics |-> metrics,
                   evaluation |-> evaluate(DefaultEvaluator, metrics)]
    /\ k' = 1
    /\ UNCHANGED <<monitorVars, input>>

SpecRecommend == InitRecommend /\ [][RunRecommend]_vars

-----------------------------------------------------------------------------

(* DataFetcher.fetchHistoricalData, script.js:41-101.  Times are in hours,  *)
(* so gapInMilliseconds is 1.  A response of the API is of kind "throw"     *)
(* (fetch or json() throws), "error" (retCode is not 0 or there is no list) *)
(* or "ok", with the list of its bars, each a pair <<time, close>>.  The    *)
(* function is async: it gives way to the page's other handlers at          *)
(* await fetch(url) and at await response.json(), once per request.         *)

\* script.js:58
limit == 1000

\* script.js:95-96: self.findIndex((t) => t.time === item.time)
FindIndex(self, time) == CHOOSE i \in 1..Len(self) :
                            /\ self[i].time = time
                            /\ \A j \in 1..(i - 1) : self[j].time # time

\* script.js:98: sort((a, b) => a.time - b.time) of bars with distinct times
RECURSIVE SortByTime(_)
SortByTime(bars) ==
    IF bars = <<>> THEN <<>>
    ELSE LET first == CHOOSE i \in 1..Len(bars) :
                          \A j \in 1..Len(bars) : bars[i].time <= bars[j].time
         IN  <<bars[first]>> \o
             SortByTime([j \in 1..(Len(bars) - 1) |->
                            IF j < first THEN bars[j] ELSE bars[j + 1]])

\* script.js:88-98
ProcessedData(priceData, startTimeMs) ==
    LET mapped == [i \in 1..Len(priceData) |->
                      [time |-> priceData[i][1], close |-> priceData[i][2]]]
        inRange == SelectSeq(mapped, LAMBDA item : item.time >= startTimeMs)
        firsts == {i \in 1..Len(inRange) : i = FindIndex(inRange, inRange[i].time)}
        RECURSIVE Keep(_)
        Keep(i) == IF i > Len(inRange) THEN <<>>
                   ELSE (IF i \in firsts THEN <<inRange[i]>> ELSE <<>>) \o Keep(i + 1)
    IN  SortByTime(Keep(1))

-----------------------------------------------------------------------------
(* A call of fetchHistoricalData on bounded ranges and responses, on a page *)
(* whose start and stop buttons may be clicked, and whose monitoring ticks  *)
(* go on, while the call waits.  While the call runs df is what it holds    *)
(* across its awaits: pc, the await it is at; currentEnd; priceData; page,  *)
(* the number of the request.  Once it has ended k is 1 and df is its       *)
(* outcome: the error thrown at script.js:85, or the data returned.         *)

\* the range starts at this hour
RangeStart == 2000

\* lists the API may answer with: newest bar first, bars before the start of
\* the range, the same bar twice
BarLists ==
    {<<>>, <<<<1999, 1>>>>, <<<<2001, 1>>>>, <<<<2001, 2>>, <<2000, 1>>>>,
     <<<<2001, 2>>, <<1999, 1>>>>, <<<<2001, 1>>, <<2001, 2>>>>}

Responses ==
    {[kind |-> "throw", list |-> <<>>], [kind |-> "error", list |-> <<>>]}
        \cup {[kind |-> "ok", list |-> l] : l \in BarLists}

\* ends: before the start, just after it, and MaxPages requests away
FetchInputs ==
    [startTimeMs : {RangeStart},
     endTimeMs : {RangeStart - 1, RangeStart + 2, RangeStart + (MaxPages - 1) * limit + 2},
     responses : [1..MaxPages -> Responses]]

InitFetch ==
    /\ MonitorIdle
    /\ input \in FetchInputs
    /\ df = <<>>
    /\ k = 0

\* script.js:84-100: after the loop, the call ends
FetchEnds(priceData) ==
    /\ df' = IF Len(priceData) = 0
             THEN [error |-> "Failed to fetch any data", data |-> <<>>]
             ELSE [error |-> "", data |-> ProcessedData(priceData, input.startTimeMs)]
    /\ k' = 1

\* script.js:61-64: the loop's test, then the request that ends at
\* currentEnd and the await of fetch
FetchLoop(currentEnd, priceData, page) ==
    IF currentEnd > input.startTimeMs
    THEN /\ df' = [pc |-> "fetch", currentEnd |-> currentEnd,
                   priceData |-> priceData, page |-> page]
         /\ k' = k
    ELSE FetchEnds(priceData)

\* script.js:41-64: dataFetcher.fetchHistoricalData(symbol, interval,
\* startTime, endTime) is called and runs to its first await or to its end
FetchCalled ==
    /\ k = 0
    /\ df = <<>>
    /\ FetchLoop(input.endTimeMs, <<>>, 1)
    /\ UNCHANGED <<monitorVars, input>>

\* script.js:64-65 and 78-81: fetch(url) settles; it throws, or the response
\* is there and the call awaits response.json()
FetchSettles ==
    /\ k = 0
    /\ df # <<>>
    /\ df.pc = "fetch"
    /\ \/ /\ input.responses[df.page].kind = "throw"
          /\ FetchEnds(df.priceData)
       \/ /\ df' = [df EXCEPT !.pc = "json"]
          /\ k' = k
    /\ UNCHANGED <<monitorVars, input>>

\* script.js:65-82: response.json() settles and the loop goes on to the next
\* await or to the end of the call
JsonSettles ==
    /\ k = 0
    /\ df # <<>>
    /\ df.pc = "json"
    /\ LET result == input.responses[df.page]
       IN  IF result.kind \in {"throw", "error"} THEN FetchEnds(df.priceData)
           ELSE IF Len(result.list) = 0 THEN FetchEnds(df.priceData)
           ELSE FetchLoop(df.currentEnd - limit, df.priceData \o result.list,
                          df.page + 1)
    /\ UNCHANGED <<monitorVars, input>>

NextFetch ==
    \/ FetchCalled
    \/ FetchSettles
    \/ JsonSettles
    \/ \E creds \in BOOLEAN, form \in LiveForms :
          handleStartMonitor(creds, form) /\ WithinBounds'
    \/ handleStopMonitor
    \/ \E t \in BagToSet(ticks) : FetchThrows(t)
    \/ \E t \in BagToSet(ticks), closes \in LiveSeries : FetchReturns(t, closes)
    \/ \E t \in BagToSet(ticks), hourlySent \in BOOLEAN : SendCompletes(t, hourlySent)

SpecFetch == InitFetch /\ [][NextFetch]_vars

-----------------------------------------------------------------------------
(* The win rate alone: calculateWinRate applied to the result of backtest,  *)
(* as calculateAllMetrics does (script.js:411)                              *)

\* closes that open and close two longs under trend/long with window 2:
\* one at a loss, one at a gain
WinRateCloses == <<1, 2, 1, 2, 3, 2>>

WinRateInputs ==
    [closes : PriceSeries \cup {WinRateCloses, ResidueCloses}, window : 1..MaxWindow,
     thresholds : Thresholds, logicType : LogicTypes, side : Sides]

InitWinRate ==
    /\ MonitorIdle
    /\ input \in WinRateInputs
    /\ df = <<>>
    /\ k = 0

\* this.calculateWinRate(validDf), script.js:411, on the rows of backtest
RunWinRate ==
    /\ k = 0
    /\ LET rows == backtest(Bars(input.closes), input.window, input.thresholds.entry,
                            input.thresholds.exit, input.logicType, input.side)
       IN  df' = [rows |-> rows, winRate |-> calculateWinRate(rows)]
    /\ k' = 1
    /\ UNCHANGED <<monitorVars, input>>

SpecWinRate == InitWinRate /\ [][RunWinRate]_vars

-----------------------------------------------------------------------------
(* The rolling statistics alone: calculateZScore applied to bounded series *)

\* the closes [100, 102, 101, 105, 99]
ScenarioCloses == <<100, 102, 101, 105, 99>>

ZScoreInputs == [closes : PriceSeries \cup {ScenarioCloses}, window : 1..MaxWindow]

InitZScore ==
    /\ MonitorIdle
    /\ input \in ZScoreInputs
    /\ df = <<>>
    /\ k = 0

\* backtestEngine.calculateZScore(data, window)
RunZScore ==
    /\ df = <<>>
    /\ df' = calculateZScore(Bars(input.closes), input.window)
    /\ UNCHANGED <<monitorVars, input, k>>

SpecZScore == InitZScore /\ [][RunZScore]_vars

-----------------------------------------------------------------------------
(* The rolling statistics in doubles: calculateZScore applied to series of  *)
(* closes with decimal fractions                                            *)

\* the closes "0.1", "0.7" and "3" as the ratios their texts read
DecimalPrices == {<<1, 10>>, <<7, 10>>, <<3, 1>>}

DecimalSeries == UNION {[1..n -> DecimalPrices] : n \in 1..MaxLen}

ZScoreFlInputs == [closes : DecimalSeries, window : 0..MaxWindow]

InitZScoreFl ==
    /\ MonitorIdle
    /\ input \in ZScoreFlInputs
    /\ df = <<>>
    /\ k = 0

\* backtestEngine.calculateZScore(data, window)
RunZScoreFl ==
    /\ df = <<>>
    /\ df' = calculateZScoreFl(FlBars(input.closes), input.window)
    /\ UNCHANGED <<monitorVars, input, k>>

SpecZScoreFl == InitZScoreFl /\ [][RunZScoreFl]_vars

-----------------------------------------------------------------------------
(* The signal generator alone: generateSignals applied to z-score columns   *)
(* in which a bar may have no z-score                                       *)

OptZValues == {None} \cup {Some(z) : z \in ZValues}

OptZSeqs == UNION {[1..n -> OptZValues] : n \in 1..MaxZLen}

\* the z-scores [NaN, NaN, 1.5, 0.2, -1.2]
ScenarioZs == <<None, None, Some([num |-> 3, rad |-> 4, off |-> 0]),
                Some([num |-> 1, rad |-> 25, off |-> 0]),
                Some([num |-> -6, rad |-> 25, off |-> 0])>>

SignalInputs ==
    [zs : OptZSeqs \cup {ScenarioZs}, thresholds : LiveThresholds,
     logicType : LogicTypes, side : Sides]

InitSignals ==
    /\ MonitorIdle
    /\ input \in SignalInputs
    /\ df = <<>>
    /\ k = 0

\* the rows generateSignals reads: their zscore column (script.js:221)
OptZBars(zs) == [i \in 1..Len(zs) |-> [zscore |-> zs[i]]]

\* backtestEngine.generateSignals(df, entry, exit, logic, side)
RunSignals ==
    /\ df = <<>>
    /\ df' = generateSignals(OptZBars(input.zs), input.thresholds.entry,
                             input.thresholds.exit, input.logicType, input.side)
    /\ UNCHANGED <<monitorVars, input, k>>

SpecSignals == InitSignals /\ [][RunSignals]_vars

-----------------------------------------------------------------------------
(* Claims *)

\* exit < 0 < entry, the thresholds handleBacktestSubmit accepts
\* (script.js:1090-1108)
WellOrdered(th) == th.exit[1] < 0 /\ th.entry[1] > 0

\* C1: fed the same z-scores one per tick from currentPosition = none, the
\* live rule leaves currentPosition after each tick equal to the position
\* generateSignals gives that bar (long = 1, short = -1, none = 0).  Stated
\* here for the thresholds with exit < 0 < entry, which the claim includes.
C1_LiveMatchesBatch ==
    (k > 0 /\ WellOrdered(input.thresholds)) =>
        PosNum(currentPosition) =
            generateSignals(ZBars(input.zs), input.thresholds.entry,
                            input.thresholds.exit, input.logicType,
                            input.side)[k].pos

\* C2: at most one checkTradingSignal evaluation is in flight at any time.
C2_AtMostOneInFlight == BagCardinality(ticks) <= 1

\* C3, its "never two" half: within a session no bar gets a second hourly
\* status update, and a bar that got its update is the one
\* lastHourlyTimestamp was advanced to.
C3_OneUpdatePerBar ==
    /\ sent.n <= 1
    /\ (lastOp.op = "evaluated" /\ isMonitoring) =>
           lastHourlyTimestamp = Some(sent.ts)

\* the step runs the timer branch that calls checkTradingSignal: some
\* timer's lastHour is assigned (script.js:1596-1598)
TimerTickStep ==
    \E id \in DOMAIN timers \cap DOMAIN timers' : timers'[id] # timers[id]

\* C4: a tick whose closed-bar timestamp is not strictly greater than the
\* last processed one is a no-op: no fetch begins, and currentPosition,
\* lastHourlyTimestamp and the updates sent stay as they are.
C4_StaleTickIsNoOp ==
    [][(/\ TimerTickStep
        /\ lastHourlyTimestamp # None
        /\ getLastHourlyCandleTime(clock) <= lastHourlyTimestamp[1])
       => UNCHANGED <<lastHourlyTimestamp, currentPosition, ticks, sent>>]_vars

\* a tick was entered for an already processed bar and returned
C4_Witness ==
    /\ lastOp.op = "tickSkip"
    /\ lastHourlyTimestamp # None
    /\ getLastHourlyCandleTime(clock) <= lastHourlyTimestamp[1]
    /\ ticks = EmptyBag

\* C5: while monitoring is stopped, lastHourlyTimestamp is null and
\* currentPosition is none.
C5_StoppedIsReset ==
    ~isMonitoring => (lastHourlyTimestamp = None /\ currentPosition = "none")

\* C6: no checkTradingSignal evaluation begins while monitoring is stopped:
\* every step in which one begins ends with isMonitoring true (it is
\* handleStartMonitor's own call, or a timer's while monitoring).
C6_NoTickWhileStopped ==
    [][(TimerTickStep \/ BagCardinality(ticks') > BagCardinality(ticks))
       => isMonitoring']_vars

\* a timer outlived the stop, ran after the hour changed, and did nothing
C6_Witness ==
    /\ lastOp = [op |-> "timerStopped", ts |-> clock.hour]
    /\ ~isMonitoring
    /\ ticks = EmptyBag
    /\ \E id \in DOMAIN timers : timers[id] # getHours(clock)

SendsPending(b) == BagCardinality([t \in {u \in BagToSet(b) : u.pc = "send"} |-> b[t]])

\* C7: the step that attempts the notification has committed the tick's
\* state (lastHourlyTimestamp is the tick's bar), and the completion of a
\* send, failed or not, changes neither currentPosition nor
\* lastHourlyTimestamp.
C7_SendFailureKeepsState ==
    [][/\ (SendsPending(ticks') > SendsPending(ticks))
            => lastHourlyTimestamp' = Some(sent'.ts)
       /\ (SendsPending(ticks') < SendsPending(ticks))
            => UNCHANGED <<currentPosition, lastHourlyTimestamp>>]_vars

\* a send has failed and the position and bar committed by its tick stand
C7_Witness ==
    /\ lastOp.op = "sendFailed"
    /\ currentPosition # "none"
    /\ lastHourlyTimestamp = Some(lastOp.ts)

\* C8: every bar of backtest has pos in {-1, 0, 1}, and trades equal to
\* |pos - posPrev|, posPrev being the previous bar's pos (0 for the first
\* bar), hence in {0, 1, 2}.
C8_PositionsAndTrades ==
    \A i \in 1..Len(df) :
        /\ df[i].pos \in {-1, 0, 1}
        /\ df[i].posPrev = (IF i = 1 THEN 0 ELSE df[i - 1].pos)
        /\ df[i].trades = Abs(df[i].pos - df[i].posPrev)
        /\ df[i].trades \in {0, 1, 2}

\* a run with a reversal (trades = 2) and an entry or exit (trades = 1)
C8_Witness ==
    /\ \E i \in 1..Len(df) : df[i].trades = 2
    /\ \E i \in 1..Len(df) : df[i].trades = 1

\* C9: pnl[i] = pos[i-1] * priceChange[i] with pnl[0] = 0, and
\* cumulativePnl[i] = cumulativePnl[i-1] + pnl[i] with
\* cumulativePnl[0] = pnl[0]; the products and sums are those of the
\* code's numbers.
C9_PnlAndCumulative ==
    \A i \in 1..Len(df) :
        /\ df[i].pnl =
              (IF i = 1 THEN FlZero
               ELSE FlMul(FlFromInt(df[i - 1].pos), df[i].priceChange))
        /\ df[i].priceChange =
              (IF i = 1 THEN FlZero
               ELSE FlFromBigRatio(Sign(df[i].close - df[i - 1].close),
                                   BigFromInt(Abs(df[i].close - df[i - 1].close)),
                                   BigFromInt(df[i - 1].close)))
        /\ df[i].cumulativePnl =
              (IF i = 1 THEN df[1].pnl
               ELSE FlAdd(df[i - 1].cumulativePnl, df[i].pnl))

\* a run with a gain and a loss
C9_Witness ==
    /\ \E i \in 1..Len(df) : df[i].pnl.s > 0
    /\ \E i \in 1..Len(df) : df[i].pnl.s < 0

\* max(0, max of cumulativePnl[0..i])
RunningPeak(d, i) ==
    LET S == {FlZero} \cup {d[j].cumulativePnl : j \in 1..i}
    IN  CHOOSE p \in S : \A q \in S : FlAtLeast(p, q)

\* C10: the running peak (the code's maxCumulativePnl) equals
\* max(0, max of cumulativePnl[0..i]) and never decreases;
\* drawdown[i] = cumulativePnl[i] - peak[i] <= 0; the first bar's drawdown
\* is min(0, pnl[0]).
C10_PeakAndDrawdown ==
    \A i \in 1..Len(df) :
        /\ MaxCumulativePnlAt(df, i) = RunningPeak(df, i)
        /\ FlAtLeast(MaxCumulativePnlAt(df, i), MaxCumulativePnlAt(df, i - 1))
        /\ df[i].drawdown = FlSub(df[i].cumulativePnl, RunningPeak(df, i))
        /\ df[i].drawdown.s <= 0
        /\ (i = 1) =>
              df[i].drawdown = (IF df[1].pnl.s < 0 THEN df[1].pnl ELSE FlZero)

\* a run whose peak rose above 0 and that then fell below it
C10_Witness ==
    \E i \in 1..Len(df) :
        /\ RunningPeak(df, i).s > 0
        /\ df[i].drawdown.s < 0

\* the bar has no raw decision: no z-score, or, under trend logic or
\* fast/both, a z-score strictly between exit and entry
Neutral(zopt, th, logicType, side) ==
    \/ zopt = None
    \/ /\ logicType = "trend" \/ side = "both"
       /\ ZCmp(zopt[1], th.exit) > 0
       /\ ZCmp(zopt[1], th.entry) < 0

NeutralBar(i) == Neutral(input.zs[i], input.thresholds, input.logicType, input.side)

\* C11: in generateSignals a bar with no raw decision takes the position
\* emitted for the previous bar, and 0 when no earlier bar decided; so a bar
\* followed by N such bars gives the same position on all N+1 bars.
C11_ForwardFill ==
    /\ \A i \in 1..Len(df) :
          NeutralBar(i) => df[i].pos = (IF i = 1 THEN 0 ELSE df[i - 1].pos)
    /\ \A i \in 1..Len(df) :
          (\A j \in 1..i : NeutralBar(j)) => df[i].pos = 0
    /\ \A i \in 1..Len(df) : \A n \in i..Len(df) :
          (\A j \in (i + 1)..n : NeutralBar(j)) => df[n].pos = df[i].pos

\* a triggering bar with a position was followed by two bars with no raw
\* decision, one of them without a z-score
C11_Witness ==
    \E i \in 1..Len(df) :
        /\ i + 2 <= Len(df)
        /\ ~NeutralBar(i)
        /\ df[i].pos # 0
        /\ NeutralBar(i + 1) /\ NeutralBar(i + 2)
        /\ input.zs[i + 1] = None
        /\ input.zs[i + 2] # None
        /\ df[i + 2].pos = df[i].pos

\* C12: under trend logic, side=long sets 1 when z >= entry, 0 when
\* z <= exit, else holds; side=short sets 0 when z >= entry, -1 when
\* z <= exit, else holds (where only one of the two conditions is met); and
\* trend/long with entry 1, exit -1 on [NaN, NaN, 1.5, 0.2, -1.2] gives
\* [0, 0, 1, 1, 0].
C12_TrendSingleSided ==
    /\ (df # <<>> /\ input.logicType = "trend" /\ input.side # "both") =>
          \A i \in 1..Len(df) :
              input.zs[i] # None =>
                  LET ge == ZCmp(input.zs[i][1], input.thresholds.entry) >= 0
                      le == ZCmp(input.zs[i][1], input.thresholds.exit) <= 0
                      prev == IF i = 1 THEN 0 ELSE df[i - 1].pos
                      onEntry == IF input.side = "long" THEN 1 ELSE 0
                      onExit == IF input.side = "long" THEN 0 ELSE -1
                  IN  /\ (ge /\ ~le) => df[i].pos = onEntry
                      /\ (le /\ ~ge) => df[i].pos = onExit
                      /\ (~ge /\ ~le) => df[i].pos = prev
    /\ (/\ df # <<>>
        /\ input.zs = ScenarioZs
        /\ input.logicType = "trend" /\ input.side = "long"
        /\ input.thresholds = [entry |-> <<1, 1>>, exit |-> <<-1, 1>>]) =>
          [i \in 1..Len(df) |-> df[i].pos] = <<0, 0, 1, 1, 0>>

\* the scenario has run under trend/long with entry 1 and exit -1
C12_Witness ==
    /\ df # <<>>
    /\ input.zs = ScenarioZs
    /\ input.logicType = "trend" /\ input.side = "long"
    /\ input.thresholds = [entry |-> <<1, 1>>, exit |-> <<-1, 1>>]
    /\ df[3].pos = 1 /\ df[4].pos = 1 /\ df[5].pos = 0

\* the z-score meets both conditions: z >= entry and z <= exit
Tie(z, th) == ZCmp(z, th.entry) >= 0 /\ ZCmp(z, th.exit) <= 0

\* C13: when a z-score satisfies both z >= entry and z <= exit, the position
\* for side=both is -1 (short) under trend and fast logic, in generateSignals
\* and in the live rule alike.
C13_ShortWinsTie ==
    (k > 0 /\ input.side = "both" /\ Tie(input.zs[k], input.thresholds)) =>
        /\ generateSignals(ZBars(input.zs), input.thresholds.entry,
                           input.thresholds.exit, input.logicType,
                           input.side)[k].pos = -1
        /\ currentPosition = "short"

\* C14: under fast logic with a single side, every bar with a z-score gets
\* 1 if z >= entry else 0 (side=long), -1 if z <= exit else 0 (side=short),
\* whatever the previous position.
C14_FastStateless ==
    (df # <<>> /\ input.logicType = "fast" /\ input.side # "both") =>
        \A i \in 1..Len(df) :
            input.zs[i] # None =>
                df[i].pos =
                    (IF input.side = "long"
                     THEN (IF ZCmp(input.zs[i][1], input.thresholds.entry) >= 0
                           THEN 1 ELSE 0)
                     ELSE (IF ZCmp(input.zs[i][1], input.thresholds.exit) <= 0
                           THEN -1 ELSE 0))

\* under fast logic a position was dropped on a bar whose z-score lies
\* strictly between exit and entry
C14_Witness ==
    /\ input.logicType = "fast" /\ input.side # "both"
    /\ \E i \in 2..Len(df) :
          /\ df[i - 1].pos # 0
          /\ df[i].pos = 0
          /\ input.zs[i] # None
          /\ ZCmp(input.zs[i][1], input.thresholds.exit) > 0
          /\ ZCmp(input.zs[i][1], input.thresholds.entry) < 0

OtherLogic(logicType) == IF logicType = "fast" THEN "trend" ELSE "fast"

\* C15: for side=both the position series under logic=fast equals the one
\* under logic=trend, for every z-score sequence and threshold pair.
C15_FastBothIsTrendBoth ==
    (df # <<>> /\ input.side = "both") =>
        LET other == generateSignals(OptZBars(input.zs), input.thresholds.entry,
                                     input.thresholds.exit,
                                     OtherLogic(input.logicType), "both")
        IN  \A i \in 1..Len(df) : df[i].pos = other[i].pos

\* fast/both held a position over an untriggered bar and reversed it later
C15_Witness ==
    /\ input.logicType = "fast" /\ input.side = "both"
    /\ \E i \in 2..Len(df) :
          /\ df[i - 1].pos # 0
          /\ NeutralBar(i) /\ input.zs[i] # None
          /\ df[i].pos = df[i - 1].pos
          /\ \E j \in (i + 1)..Len(df) : df[j].pos = -df[i].pos

\* the mean of the closes cs, as the code's reduce and division give it
MeanOf(cs) == Rat(SumSeq(cs), Len(cs))

RECURSIVE SumSquaredDev(_, _)
SumSquaredDev(cs, mean) ==
    IF cs = <<>> THEN RatZero
    ELSE LET dev == RatSub(<<Head(cs), 1>>, mean)
         IN  RatAdd(RatMul(dev, dev), SumSquaredDev(Tail(cs), mean))

\* the population variance of the closes cs: sum of (val - mean)^2 over
\* the count
VarianceOf(cs) == RatDiv(SumSquaredDev(cs, MeanOf(cs)), <<Len(cs), 1>>)

\* the bar b carries the mean, the standard deviation and the z-score of
\* the closes cs for the close c: std^2 is the variance, and zscore is
\* (c - mean) / std, or 0 when std is 0
HasStatsOf(b, cs, c) ==
    /\ b.mean = Some(MeanOf(cs))
    /\ b.std # None
    /\ Rat(b.std[1].rad, b.std[1].den * b.std[1].den) = VarianceOf(cs)
    /\ b.zscore # None
    /\ LET dev == RatSub(<<c, 1>>, MeanOf(cs))
           z == b.zscore[1]
       IN  IF VarianceOf(cs) = RatZero
           THEN z.num = 0
           ELSE /\ Sign(z.num) = Sign(dev[1])
                /\ Rat(z.num * z.num, z.rad) = RatDiv(RatMul(dev, dev), VarianceOf(cs))

\* C16: calculateZScore leaves mean, std and zscore undefined exactly on
\* the bars with index < window - 1 and on every later bar computes them over
\* the closes [i - window + 1, i]; closes [100, 102, 101, 105, 99] with
\* window 3 leave bars 0 and 1 undefined and give bar 2 mean 101, zscore 0.
C16_WarmUpAndWindow ==
    /\ \A i \in 1..Len(df) :
          IF i - 1 < input.window - 1
          THEN df[i].mean = None /\ df[i].std = None /\ df[i].zscore = None
          ELSE HasStatsOf(df[i],
                          [j \in 1..input.window |->
                              input.closes[i - input.window + j]],
                          input.closes[i])
    /\ (df # <<>> /\ input.closes = ScenarioCloses /\ input.window = 3) =>
          /\ df[1].zscore = None /\ df[2].zscore = None
          /\ df[3].mean = Some(<<101, 1>>)
          /\ df[3].zscore # None /\ df[3].zscore[1].num = 0

\* the scenario has run with window 3
C16_Witness ==
    /\ df # <<>>
    /\ input.closes = ScenarioCloses /\ input.window = 3
    /\ df[2].mean = None
    /\ df[3].mean = Some(<<101, 1>>)
    /\ df[5].zscore # None /\ df[5].zscore[1].num < 0

\* every close of the series is the same
ConstantSeries(cs) == \A i, j \in 1..Len(cs) : cs[i] = cs[j]

\* C17: for a constant-price series and any window, calculateZScore yields
\* std = 0 and zscore = 0 on every bar with index >= window - 1.  In the
\* code's doubles this fails for closes 0.1, 0.1, 0.1 with window 3: the sum
\* 0.30000000000000004 divided by 3 is 0.10000000000000002, not 0.1, so the
\* std is 2^-56 and the zscore is -1.
C17_ConstantSeriesZero ==
    (df # <<>> /\ input.window >= 1 /\ ConstantSeries(input.closes)) =>
        \A i \in 1..Len(df) :
            (i - 1 >= input.window - 1) =>
                /\ df[i].std = Some(FlZero)
                /\ df[i].zscore = Some(FlZero)

\* the last Len(cs) - from + 1 closes of cs
Trailing(cs, from) == [j \in 1..(Len(cs) - from + 1) |-> cs[from + j - 1]]

\* C18: for every trailing sub-series of length >= window ending at the
\* same bar, calculateZScore gives that last bar the same mean, std and
\* zscore as over the full series.
C18_TrailingWindowAgrees ==
    df # <<>> =>
        \A from \in 1..Len(input.closes) :
            (Len(input.closes) - from + 1 >= input.window) =>
                LET sub == calculateZScore(Bars(Trailing(input.closes, from)),
                                           input.window)
                    last == sub[Len(sub)]
                    full == df[Len(df)]
                IN  /\ last.mean = full.mean
                    /\ last.std = full.std
                    /\ last.zscore = full.zscore

\* a series longer than the window, whose last bar has a non-zero z-score
\* and whose earlier closes differ from the window's
C18_Witness ==
    /\ df # <<>>
    /\ Len(input.closes) > input.window
    /\ input.window > 1
    /\ df[Len(df)].zscore # None /\ df[Len(df)].zscore[1].num # 0
    /\ input.closes[1] # input.closes[Len(input.closes)]
    /\ input.closes[1] # input.closes[Len(input.closes) - 1]

\* C20: evaluate returns recommended = true exactly when all four checks
\* pass (Sharpe >= minSharpe, Calmar >= minCalmar, MaxDrawdown >= floor,
\* Trades >= minTrades, a NaN failing), and always returns exactly four
\* reasons in the order Sharpe, Calmar, MaxDrawdown, Trades; Sharpe 1.2,
\* Calmar 0.5, MaxDrawdown -0.1, Trades 15 with the defaults is not
\* recommended and only the Calmar line fails.
C20_EvaluateAllFour ==
    df # <<>> =>
        LET m == input.metrics
            ev == input.evaluator
            sharpeOk == FlAtLeast(m["Sharpe Ratio"], FlThreshold(ev.minSharpeRatio))
            calmarOk == FlAtLeast(m["Calmar Ratio"], FlThreshold(ev.minCalmarRatio))
            mddOk == FlAtLeast(m["Max Drawdown"], FlThreshold(ev.maxDrawdownThreshold))
            tradesOk == FlAtLeast(m["Number of Trades"], FlFromInt(ev.minTrades))
        IN  /\ df.isRecommended = (sharpeOk /\ calmarOk /\ mddOk /\ tradesOk)
            /\ Len(df.reasons) = 4
            /\ [i \in 1..4 |-> df.reasons[i].name] =
                   <<"Sharpe Ratio", "Calmar Ratio", "Max Drawdown",
                     "Number of Trades">>
            /\ [i \in 1..4 |-> df.reasons[i].mark = "pass"] =
                   <<sharpeOk, calmarOk, mddOk, tradesOk>>
            /\ (/\ ev = DefaultEvaluator
                /\ m = EvaluatedMetrics(FlFromRatio(6, 5), FlFromRatio(1, 2),
                                        FlFromRatio(-1, 10), FlFromInt(15))) =>
                   /\ ~df.isRecommended
                   /\ [i \in 1..4 |-> df.reasons[i].mark] =
                          <<"pass", "fail", "pass", "pass">>

\* the scenario has been evaluated with the default thresholds
C20_Witness ==
    /\ df # <<>>
    /\ input.evaluator = DefaultEvaluator
    /\ input.metrics = EvaluatedMetrics(FlFromRatio(6, 5), FlFromRatio(1, 2),
                                        FlFromRatio(-1, 10), FlFromInt(15))
    /\ ~df.isRecommended
    /\ df.reasons[2].mark = "fail"
    /\ Len(df.reasons) = 4

\* C19: backtest followed by calculateAllMetrics on a price series shorter
\* than window returns metrics equal to the emptyMetrics record in every
\* field.
C19_ShortSeriesGivesEmptyMetrics ==
    (k = 1 /\ Len(input.closes) < input.window) => df = emptyMetrics

\* the four metrics evaluate reads, in the order of its checks
EvaluatedKeys == <<"Sharpe Ratio", "Calmar Ratio", "Max Drawdown", "Number of Trades">>

\* C21: in evaluate a metric whose value is NaN fails its own check, for
\* each of the four metrics, so any NaN metric makes recommended false; the
\* evaluation still ends with its four reason lines.
C21_NaNFailsItsCheck ==
    df # <<>> =>
        /\ Len(df.reasons) = 4
        /\ \A i \in 1..4 :
              FlIsNaN(input.metrics[EvaluatedKeys[i]]) =>
                  /\ df.reasons[i].name = EvaluatedKeys[i]
                  /\ df.reasons[i].mark = "fail"
                  /\ ~df.isRecommended

\* a NaN Max Drawdown is the only thing that keeps the strategy from being
\* recommended
C21_Witness ==
    /\ df # <<>>
    /\ FlIsNaN(input.metrics["Max Drawdown"])
    /\ \A i \in {1, 2, 4} : df.reasons[i].mark = "pass"
    /\ df.reasons[3].mark = "fail"
    /\ df.reasons[3].value.kind = "NaN"
    /\ ~df.isRecommended

\* the bars that close a position: the previous position is non-zero and the
\* current one is 0
ClosingEvents(rows) == {e \in 2..Len(rows) : rows[e - 1].pos # 0 /\ rows[e].pos = 0}

\* the first bar of the contiguous run of the position held at bar e - 1
RunStart(rows, e) ==
    CHOOSE s \in 1..(e - 1) :
        /\ \A j \in s..(e - 1) : rows[j].pos = rows[e - 1].pos
        /\ s = 1 \/ rows[s - 1].pos # rows[e - 1].pos

Wins(rows) ==
    {e \in ClosingEvents(rows) :
        FlGreater(FlSub(rows[e].cumulativePnl, rows[RunStart(rows, e)].cumulativePnl),
                  FlZero)}

\* C22: calculateWinRate counts as closing events exactly the bars where the
\* previous position is non-zero and the current one is 0 (a direct flip is
\* not counted), a closing event at e is a win iff cumulativePnl[e] -
\* cumulativePnl[s] > 0 with s the first bar of the run of position[e-1], and
\* the result is wins / closingEvents * 100, 0 without closing events and
\* always within [0, 100].
C22_WinRate ==
    k = 1 =>
        /\ df.winRate =
              (IF ClosingEvents(df.rows) = {} THEN FlZero
               ELSE FlMul(FlFromBigRatio(Sign(Cardinality(Wins(df.rows))),
                                         BigFromInt(Cardinality(Wins(df.rows))),
                                         BigFromInt(Cardinality(ClosingEvents(df.rows)))),
                          FlFromInt(100)))
        /\ FlAtLeast(df.winRate, FlZero)
        /\ FlAtLeast(FlFromInt(100), df.winRate)

\* two longs were closed, one at a gain: the win rate is 50
C22_Witness ==
    /\ k = 1
    /\ input.closes = WinRateCloses
    /\ Cardinality(ClosingEvents(df.rows)) = 2
    /\ Cardinality(Wins(df.rows)) = 1
    /\ df.winRate = FlFromInt(50)

\* the window is within [1, 1000]
WindowInRange(form) == form.window >= 1 /\ form.window <= 1000

\* the entry threshold is within (0, 5] and the exit threshold within [-5, 0)
ThresholdsInRange(form) ==
    /\ RatCmp(form.entryThreshold, RatZero) > 0
    /\ RatCmp(form.entryThreshold, <<5, 1>>) <= 0
    /\ RatCmp(form.exitThreshold, <<-5, 1>>) >= 0
    /\ RatCmp(form.exitThreshold, RatZero) < 0

\* C23: no engine computation is entered with a window outside [1, 1000],
\* an entry threshold outside (0, 5] or an exit threshold outside [-5, 0), on
\* every path that reaches the engine.  The last step was backtest (window
\* and thresholds) or the calculateZScore call of a tick (window).
C23_EngineParametersInRange ==
    /\ lastOp.op = "backtest" => WindowInRange(input) /\ ThresholdsInRange(input)
    /\ lastOp.op \in {"evaluated", "zscoreFailed"} => WindowInRange(input)

\* C24: fetchHistoricalData never returns an empty series: for every range
\* and every sequence of responses it returns at least one bar or fails with
\* an error.
C24_FetchNeverEmpty ==
    k = 1 => (df.error # "" \/ Len(df.data) >= 1)

\* C25: for every input to backtest the bars with index < window - 1, which
\* have no z-score, have pos 0, pnl 0, cumulativePnl 0 and trades 0, and pnl
\* is still 0 on bar window - 1.
C25_WarmUpIsFlat ==
    df # <<>> =>
        \A i \in 1..Len(df) :
            /\ (i - 1 < input.window - 1) =>
                  /\ df[i].zscore = None
                  /\ df[i].pos = 0
                  /\ df[i].pnl = FlZero
                  /\ df[i].cumulativePnl = FlZero
                  /\ df[i].trades = 0
            /\ (i - 1 = input.window - 1) => df[i].pnl = FlZero

\* a position is opened on bar window - 1 while the price moves: that bar
\* earns nothing, the next one does
C25_Witness ==
    /\ df # <<>>
    /\ input.window > 1
    /\ Len(df) > input.window
    /\ df[input.window - 1].pos = 0
    /\ df[input.window].pos # 0
    /\ df[input.window].priceChange # FlZero
    /\ df[input.window].pnl = FlZero
    /\ df[input.window].trades = 1
    /\ df[input.window + 1].pnl # FlZero

\* C26: in live trend mode, for every side, a tick whose z-score lies
\* strictly between exitThreshold and entryThreshold leaves currentPosition
\* as it was before the tick.
C26_TrendHoldsBetweenThresholds ==
    [][(/\ k < Len(input.zs)
        /\ k' = k + 1
        /\ input.logicType = "trend"
        /\ ZCmp(input.zs[k + 1], input.thresholds.exit) > 0
        /\ ZCmp(input.zs[k + 1], input.thresholds.entry) < 0)
       => currentPosition' = currentPosition]_vars

\* the signal kind that goes with a change of position ("" for none)
SignalOfTransition(old, new) ==
    IF new = old THEN ""
    ELSE IF new = "long" THEN "entry_long"
    ELSE IF new = "short" THEN "entry_short"
    ELSE IF old = "long" THEN "exit_long"
    ELSE "exit_short"

\* C27: the signal kind a tick of checkTradingSignal ends with is a function
\* of the pair (old position, new position) only, whichever fast sub-rule
\* fired: none iff the position is unchanged, entry_long iff it changed to
\* long, entry_short iff it changed to short, exit_long iff long became none,
\* exit_short iff short became none.
C27_SignalFromTransition ==
    df # <<>> => df.signalType = SignalOfTransition(df.old, df.new)

\* a fast tick of a running session closed a short with rule 1 and opened a
\* long with rule 3
C27_Witness ==
    /\ df # <<>>
    /\ isMonitoring
    /\ df.logicType = "fast"
    /\ df.old = "short"
    /\ df.new = "long"
    /\ df.signalType = "entry_long"

\* C30: in every state reachable in a monitoring session, for any sequence
\* of z-scores and any logic and side read from the form at each tick,
\* currentPosition after a tick is a position the side read at that tick
\* permits: never short when side = long and never long when side = short.
C30_PositionPermittedBySide ==
    df # <<>> =>
        /\ df.side = "long" => df.new # "short"
        /\ df.side = "short" => df.new # "long"

\* the step ends a tick at one of its error exits: fetchRecentData threw,
\* returned fewer than window bars, or the last bar has no z-score
TickFailsStep ==
    /\ ticks' # ticks
    /\ lastOp'.op \in {"fetchThrows", "notEnoughData", "zscoreFailed"}

\* C28: if a tick's data fetch throws, returns fewer than window bars, or
\* yields an undefined z-score for the last bar, the tick ends with
\* currentPosition and lastHourlyTimestamp unchanged and sends no status
\* update.
C28_FailedTickChangesNothing ==
    [][TickFailsStep =>
          /\ currentPosition' = currentPosition
          /\ lastHourlyTimestamp' = lastHourlyTimestamp
          /\ sent' = sent
          /\ BagCardinality(ticks') = BagCardinality(ticks) - 1]_vars

\* a timer's tick got fewer bars than the window; the position and the
\* timestamp of the session's first tick are still there, and no update was
\* sent for the new bar
C28_Witness ==
    /\ lastOp.op = "notEnoughData"
    /\ isMonitoring
    /\ currentPosition # "none"
    /\ lastHourlyTimestamp # None
    /\ lastOp.ts > lastHourlyTimestamp[1]
    /\ sent = [ts |-> lastHourlyTimestamp[1], n |-> 1]

\* the bar that closed at the rollover into hour h has been evaluated
BarEvaluated(h) == h \in EvaluatedBars

\* a call that asked for the bars up to the rollover into hour h is still
\* waiting for them
BarInFlight(h) == \E t \in BagToSet(ticks) : t.pc = "fetch" /\ t.bar = h

\* C29: while monitoring stays active and data fetches succeed, every
\* wall-clock hour rollover is eventually followed by an evaluation and a
\* status update for the bar that closed at that rollover: no closed bar is
\* skipped, whatever the timing of the poll relative to the hour boundary
\* and to the first tick.  A tick asks for the bars up to the start of the
\* hour it begins in (LastClosedBar), so the bar of the rollover into hour h
\* is evaluated by a tick that began in hour h or by none: once the next
\* rollover has happened the bar has been evaluated, or a tick that began in
\* hour h is still waiting for its data, or the bar has been skipped for
\* good.
C29_NoClosedBarSkipped ==
    \A h \in 2..MaxSessionHour :
        (isMonitoring /\ clock.hour > h) => (BarEvaluated(h) \/ BarInFlight(h))

\* C31: for every interleaving of handleStartMonitor, handleStopMonitor and
\* the completion of the initial awaited tick, at most one poll timer is
\* alive, none is alive while monitoring is stopped, and monitorInterval
\* refers to the only live timer.
C31_OneLiveTimer ==
    /\ Cardinality(DOMAIN timers) <= 1
    /\ ~isMonitoring => DOMAIN timers = {}
    /\ DOMAIN timers = (IF monitorInterval = None THEN {} ELSE {monitorInterval[1]})

\* a step in which checkTradingSignal calls sendHourlyUpdate
SendsUpdate == sent' # sent /\ sent' # NoUpdates

\* C32: no hourly status update is sent to the notifier while isMonitoring
\* is false; a tick in flight when handleStopMonitor ran sends nothing
\* after the stop.
C32_NoUpdateAfterStop == [][SendsUpdate => isMonitoring]_vars

\* bars of the backtest result that change the position
PositionChanges(d) == {i \in 1..Len(d) : d[i].trades # 0}

\* C33: for side both, trend or fast, once pos is non-zero it is never 0 on
\* a later bar; the series has no closing event, the win rate is 0, and
\* every position change after the first has trades = 2.
C33_BothNeverFlat ==
    (df # <<>> /\ input.side = "both") =>
        /\ \A i \in 1..Len(df), j \in 1..Len(df) :
               (i < j /\ df[i].pos # 0) => df[j].pos # 0
        /\ TradeEnds(df) = {}
        /\ calculateWinRate(df) = FlZero
        /\ \A i \in PositionChanges(df) :
               (\E j \in PositionChanges(df) : j < i) => df[i].trades = 2

\* a backtest with side both that went from one side to the other
C33_Witness ==
    /\ df # <<>>
    /\ input.side = "both"
    /\ \E i \in PositionChanges(df), j \in PositionChanges(df) :
           j < i /\ df[i].pos = -df[j].pos

\* the output columns of a bar of the backtest result
BarOutput(bar) ==
    [zscore |-> bar.zscore, pos |-> bar.pos, trades |-> bar.trades,
     pnl |-> bar.pnl, cumulativePnl |-> bar.cumulativePnl,
     drawdown |-> bar.drawdown]

\* backtest on the first n bars of the input series alone
BacktestOfPrefix(n) ==
    backtest(Bars(SubSeq(input.closes, 1, n)), input.window,
             input.thresholds.entry, input.thresholds.exit,
             input.logicType, input.side)

\* C34: backtest is causal: for every series, parameters and n, the first n
\* output bars of backtest (zscore, pos, trades, pnl, cumulativePnl,
\* drawdown) equal the output of backtest on the first n bars alone.
C34_BacktestIsCausal ==
    df # <<>> =>
        \A n \in 1..Len(df) :
            \A prefix \in {BacktestOfPrefix(n)} :
                /\ Len(prefix) = n
                /\ \A i \in 1..n : BarOutput(prefix[i]) = BarOutput(df[i])

\* a backtest that holds a position on a bar and a different one on a later
\* bar, with profit or loss in between
C34_Witness ==
    /\ df # <<>>
    /\ Len(df) = MaxLen
    /\ \E i \in 1..(Len(df) - 1) :
           /\ df[i].pos # 0
           /\ df[Len(df)].pos # df[i].pos
           /\ df[i + 1].pnl # FlZero

\* the backtest result holds no position on any bar
StaysFlat(rows) == \A i \in 1..Len(rows) : rows[i].pos = 0

\* C35: a backtest whose position stays 0 on every bar is never
\* recommended: calculateAllMetrics gives it Sharpe = NaN, Calmar = NaN,
\* Max Drawdown = 0 and Number of Trades = 0, and evaluate with the default
\* thresholds returns recommended = false.
C35_FlatNeverRecommended ==
    (k = 1 /\ StaysFlat(df.rows)) =>
        /\ FlIsNaN(df.metrics["Sharpe Ratio"])
        /\ FlIsNaN(df.metrics["Calmar Ratio"])
        /\ df.metrics["Max Drawdown"] = FlZero
        /\ df.metrics["Number of Trades"] = FlZero
        /\ df.evaluation.isRecommended = FALSE

\* a full-length series whose prices move and whose z-score is defined on
\* some bar, yet no bar triggers an entry
C35_Witness ==
    /\ k = 1
    /\ Len(df.rows) = MaxLen
    /\ StaysFlat(df.rows)
    /\ \E i \in 1..Len(df.rows) : df.rows[i].zscore # None
    /\ \E i \in 1..Len(df.rows) : df.rows[i].priceChange # FlZero

\* what the submit handler leaves in lastOp when the form is submitted
SubmitOps ==
    {"backtestBlocked", "invalidWindow", "invalidEntryThreshold",
     "invalidExitThreshold", "backtestFetch"}

LiveStateUnchanged == UNCHANGED <<isMonitoring, lastHourlyTimestamp, currentPosition>>

\* C36: handleBacktestSubmit invoked while isMonitoring is true returns
\* without fetching data or running the engine and leaves isMonitoring,
\* lastHourlyTimestamp and currentPosition unchanged; a backtest that does
\* run never modifies those three variables.
C36_BacktestLeavesLiveState ==
    [][/\ (/\ isMonitoring
           /\ lastOp'.op \in SubmitOps
           /\ lastOp' # lastOp \/ submits' # submits) =>
              /\ lastOp'.op = "backtestBlocked"
              /\ submits' = submits
              /\ df' = df
              /\ LiveStateUnchanged
       /\ (lastOp'.op = "backtest" /\ submits' # submits) => LiveStateUnchanged]_vars

\* the form was submitted during a session that holds a position
C36_Witness ==
    /\ lastOp.op = "backtestBlocked"
    /\ isMonitoring
    /\ lastHourlyTimestamp # None
    /\ currentPosition # "none"
    /\ df = <<>>

====
